---------------------------- MODULE Spec2Model ----------------------------
(***************************************************************************)
(* Verification model of the seismic signal-processing scripts under       *)
(* src/02_code: peak extraction, NIED conversion, Fourier amplitude        *)
(* spectrum, baseline correction and the per-station processing chains.    *)
(*                                                                         *)
(* Numbers.  Samples are fixed-point integers (GalUnit units per gal).     *)
(* A Python sequence is a TLA+ sequence, so Python index i is TLA+ index   *)
(* i + 1.  numpy's sqrt is the integer square root rounded down, at the    *)
(* resolution of the samples.  A raised Python exception is the record     *)
(* Raise(kind); a returned value v is the record Return(v).                *)
(***************************************************************************)
EXTENDS Integers, Sequences, FiniteSets, TLC

\* ------------------------------------------------------------------ bounds

\* Longest series drawn for the peak functions and the NIED parser.
MaxLen == 2

\* Fixed-point units per gal (cm/s^2).
GalUnit == 2000

\* Sample values the bounded series are drawn from: -1, 0 and +1 gal.
Samples == {-GalUnit, 0, GalUnit}

\* All series over Samples of length n.
SeriesOfLen(n) == [1..n -> Samples]

\* All series over Samples of length at most n, the empty series included.
SeriesUpTo(n) == UNION {SeriesOfLen(k) : k \in 0..n}

\* The tie example of the signed peak: +5 at index 1 and -5 at index 3.
TieSeries == <<0, 5 * GalUnit, GalUnit, -5 * GalUnit, 0>>

\* The end-to-end scenario: 20 samples at 10 Hz, a single sample of 10 gal
\* at index 9.
ImpulseSeries == [i \in 1..20 |-> IF i = 10 THEN 10 * GalUnit ELSE 0]

\* ------------------------------------------------------- python and numpy

Return(v) == [ok |-> TRUE, value |-> v]

Raise(kind) == [ok |-> FALSE, error |-> kind]

\* No call has returned yet.
NoResult == [ok |-> FALSE, error |-> "none"]

Abs(x) == IF x < 0 THEN -x ELSE x

Min2(a, b) == IF a <= b THEN a ELSE b

\* data[:n] on a Python list or an array, n >= 0.
PySlice(data, n) == SubSeq(data, 1, Min2(n, Len(data)))

RECURSIVE SumSeq(_)
SumSeq(s) == IF s = <<>> THEN 0 ELSE Head(s) + SumSeq(Tail(s))

\* np.abs on an array.
NpAbs(a) == [i \in 1..Len(a) |-> Abs(a[i])]

\* Scan of np.argmax from position i with the best position b so far: a later
\* element replaces the best one only if it is strictly greater.
RECURSIVE ArgMaxScan(_, _, _)
ArgMaxScan(a, i, b) ==
    IF i > Len(a) THEN b
    ELSE ArgMaxScan(a, i + 1, IF a[i] > a[b] THEN i ELSE b)

\* np.argmax: the first position of the maximum; ValueError on an empty array.
NpArgMax(a) == IF Len(a) = 0 THEN Raise("ValueError") ELSE Return(ArgMaxScan(a, 2, 1))

\* np.max: ValueError on an empty array (the reduction has no identity).
NpMax(a) == IF Len(a) = 0 THEN Raise("ValueError") ELSE Return(a[ArgMaxScan(a, 2, 1)])

\* Binary search for the largest r in lo..hi with r * r <= x.
RECURSIVE ISqrtSearch(_, _, _)
ISqrtSearch(x, lo, hi) ==
    IF lo >= hi THEN lo
    ELSE LET mid == (lo + hi + 1) \div 2
         IN IF mid * mid <= x THEN ISqrtSearch(x, mid, hi)
            ELSE ISqrtSearch(x, lo, mid - 1)

\* Square root of a non-negative fixed-point radicand, rounded down.
ISqrt(x) == ISqrtSearch(x, 0, 46340)

\* np.sqrt on an array.
NpSqrt(a) == [i \in 1..Len(a) |-> ISqrt(a[i])]

\* arr ** 2 on an array.
NpSquare(a) == [i \in 1..Len(a) |-> a[i] * a[i]]

\* numpy's broadcasting of two one-dimensional shapes: equal lengths, or one
\* of the two has length 1 and is stretched to the other.
BroadcastOk(a, b) == Len(a) = Len(b) \/ Len(a) = 1 \/ Len(b) = 1

BroadcastLen(a, b) == IF Len(a) = 1 THEN Len(b) ELSE Len(a)

BroadcastAt(a, n, i) == IF Len(a) = 1 /\ n # 1 THEN a[1] ELSE a[i]

\* a + b on arrays: ValueError when the shapes cannot be broadcast together.
NpAdd(a, b) ==
    IF ~BroadcastOk(a, b) THEN Raise("ValueError")
    ELSE LET n == BroadcastLen(a, b)
         IN Return([i \in 1..n |-> BroadcastAt(a, n, i) + BroadcastAt(b, n, i)])

\* --------------------------------------------------------- peak extraction

\* argmax with the last position of the maximum (mutation of NpArgMax).
RECURSIVE ArgMaxLastScan(_, _, _)
ArgMaxLastScan(a, i, b) ==
    IF i > Len(a) THEN b
    ELSE ArgMaxLastScan(a, i + 1, IF a[i] >= a[b] THEN i ELSE b)

calc_signed_peak_last(data) ==
    IF Len(data) = 0 THEN Raise("ValueError")
    ELSE Return(data[ArgMaxLastScan(NpAbs(data), 2, 1)])

\* calc_signed_peak: arr[np.argmax(np.abs(arr))].
calc_signed_peak(data) ==
    LET abs_max_idx == NpArgMax(NpAbs(data))
    IN IF ~abs_max_idx.ok THEN abs_max_idx ELSE Return(data[abs_max_idx.value])

\* np.min in place of np.max.
NpMin(a) ==
    IF Len(a) = 0 THEN Raise("ValueError")
    ELSE Return(CHOOSE m \in {a[i] : i \in 1..Len(a)} : \A i \in 1..Len(a) : m <= a[i])

\* Three-axis peak reduced with np.min instead of np.max (mutation of
\* calc_peak_total).
calc_peak_total_min(ns_arr, ew_arr, ud_arr) ==
    LET s == NpAdd(NpSquare(ns_arr), NpSquare(ew_arr))
    IN IF ~s.ok THEN s
       ELSE LET t == NpAdd(s.value, NpSquare(ud_arr))
            IN IF ~t.ok THEN t ELSE NpMin(NpSqrt(t.value))

\* calc_peak_horizontal: np.max(np.sqrt(ns**2 + ew**2)).
calc_peak_horizontal(ns_arr, ew_arr) ==
    LET s == NpAdd(NpSquare(ns_arr), NpSquare(ew_arr))
    IN IF ~s.ok THEN s ELSE NpMax(NpSqrt(s.value))

\* calc_peak_total: np.max(np.sqrt(ns**2 + ew**2 + ud**2)).
calc_peak_total(ns_arr, ew_arr, ud_arr) ==
    LET s == NpAdd(NpSquare(ns_arr), NpSquare(ew_arr))
    IN IF ~s.ok THEN s
       ELSE LET t == NpAdd(s.value, NpSquare(ud_arr))
            IN IF ~t.ok THEN t ELSE NpMax(NpSqrt(t.value))

\* ------------------------------------------------------- rational numbers

\* The float num / den; den is positive and the pair is not reduced.
Rat(num, den) == [num |-> num, den |-> den]

RatEq(a, b) == a.num * b.den = b.num * a.den

RatLt(a, b) == a.num * b.den < b.num * a.den

\* a / k for a positive integer k.
RatDivInt(a, k) == Rat(a.num, a.den * k)

\* a * k for an integer k.
RatMulInt(a, k) == Rat(a.num * k, a.den)

\* 1.0 / a for a positive rational a.
RatInv(a) == Rat(a.den, a.num)

\* ------------------------------------------------ Fourier amplitude spectrum

\* The transform lengths of the model: those whose roots of unity have
\* rational or sqrt(3)-rational coordinates, so that the DFT is exact in
\* integers.
FftLengths == {1, 2, 3, 4, 6}

\* Sampling rates drawn for the spectrum and the baseline correction (Hz).
SamplingRates == {1, 4, 100}

\* A complex number is [re2, im2]: its real part is re2 / 2 and its imaginary
\* part is im2 * sqrt(RootD(n)) / 2, RootD(n) being 3 for the lengths 3 and 6
\* and 1 for the lengths 1, 2 and 4.
RootD(n) == IF n \in {3, 6} THEN 3 ELSE 1

\* exp(-2 pi i m / n) for m in 0..n-1.
Twiddle(n, m) ==
    CASE n = 1 -> [re2 |-> 2, im2 |-> 0]
      [] n = 2 -> <<[re2 |-> 2, im2 |-> 0], [re2 |-> -2, im2 |-> 0]>>[m + 1]
      [] n = 3 -> <<[re2 |-> 2, im2 |-> 0], [re2 |-> -1, im2 |-> -1],
                    [re2 |-> -1, im2 |-> 1]>>[m + 1]
      [] n = 4 -> <<[re2 |-> 2, im2 |-> 0], [re2 |-> 0, im2 |-> -2],
                    [re2 |-> -2, im2 |-> 0], [re2 |-> 0, im2 |-> 2]>>[m + 1]
      [] n = 6 -> <<[re2 |-> 2, im2 |-> 0], [re2 |-> 1, im2 |-> -1],
                    [re2 |-> -1, im2 |-> -1], [re2 |-> -2, im2 |-> 0],
                    [re2 |-> -1, im2 |-> 1], [re2 |-> 1, im2 |-> 1]>>[m + 1]

\* Sum over j = i..n of x[j] * exp(-2 pi i (j-1) k / n), in halves: the real
\* and the imaginary coordinate of bin k, each still to be divided by 2.
RECURSIVE DftSum(_, _, _)
DftSum(x, k, i) ==
    IF i > Len(x) THEN [re2 |-> 0, im2 |-> 0]
    ELSE LET w == Twiddle(Len(x), ((i - 1) * k) % Len(x))
             rest == DftSum(x, k, i + 1)
         IN [re2 |-> x[i] * w.re2 + rest.re2, im2 |-> x[i] * w.im2 + rest.im2]

\* np.fft.rfft: the bins 0..n//2 of the DFT of a real series; ValueError for
\* an empty series.
rfft(x) ==
    IF Len(x) = 0 THEN Raise("ValueError")
    ELSE Return([b \in 1..(Len(x) \div 2 + 1) |-> DftSum(x, b - 1, 1)])

\* np.abs of the bins of a length-n transform, at the samples' resolution.
NpAbsComplex(bins, n) ==
    [b \in 1..Len(bins) |->
        ISqrt((bins[b].re2 * bins[b].re2 + RootD(n) * bins[b].im2 * bins[b].im2) \div 4)]

\* np.fft.rfftfreq(n, d): val = 1.0 / (n * d); arange(0, n//2 + 1) * val.
rfftfreq(n, d) ==
    LET val == RatInv(RatMulInt(d, n))
    IN [b \in 1..(n \div 2 + 1) |-> RatMulInt(val, b - 1)]

\* dt taken to be the sampling rate itself (mutation of sample_interval).
sample_interval_not_inverted(sampling_rate) == Rat(sampling_rate, 1)

\* dt = 1.0 / sampling_rate.
sample_interval(sampling_rate) == Rat(1, sampling_rate)

\* The last bin halved whatever the parity of n (mutation of halve_nyquist).
halve_nyquist_always(amplitude, n) ==
    [amplitude EXCEPT ![Len(amplitude)] = RatDivInt(amplitude[Len(amplitude)], 2)]

\* if n % 2 == 0: amplitude[-1] /= 2.
halve_nyquist(amplitude, n) ==
    IF n % 2 = 0
    THEN [amplitude EXCEPT ![Len(amplitude)] = RatDivInt(amplitude[Len(amplitude)], 2)]
    ELSE amplitude

\* The DC bin left doubled (mutation of halve_dc).
halve_dc_skipped(amplitude) == amplitude

\* amplitude[0] /= 2.
halve_dc(amplitude) == [amplitude EXCEPT ![1] = RatDivInt(amplitude[1], 2)]

\* calculate_fourier_spectrum: the frequency grid and the amplitudes
\* |FFT| * dt * 2 with the DC bin, and for even n the Nyquist bin, halved.
calculate_fourier_spectrum(data, sampling_rate) ==
    LET n == Len(data)
        dt == sample_interval(sampling_rate)
        fft_result == rfft(data)
    IN IF sampling_rate = 0 THEN Raise("ZeroDivisionError")
       ELSE IF ~fft_result.ok THEN fft_result
       ELSE LET freq == rfftfreq(n, dt)
                absfft == NpAbsComplex(fft_result.value, n)
                amplitude == [b \in 1..Len(absfft) |-> RatMulInt(RatMulInt(dt, absfft[b]), 2)]
            IN Return([freq |-> freq, amplitude |-> halve_nyquist(halve_dc(amplitude), n)])

\* --------------------------------------------------- baseline correction

\* The float nan, as 0/0.
NaN == Rat(0, 0)

\* a - b; nan when either is nan.
RatSub(a, b) == Rat(a.num * b.den - b.num * a.den, a.den * b.den)

\* int(x) of a float num / den: truncation toward zero.
PyInt(x) == IF x.num >= 0 THEN x.num \div x.den ELSE -((-x.num) \div x.den)

\* np.mean of a slice of samples: nan for the empty slice.
NpMean(a) == IF Len(a) = 0 THEN NaN ELSE Rat(SumSeq(a), Len(a))

\* apply_baseline_correction: the mean of the first
\* min(int(window_sec * sampling_rate), len(data)) samples is subtracted from
\* every sample.
apply_baseline_correction(data, sampling_rate, window_sec) ==
    LET n_samples == Min2(PyInt(RatMulInt(window_sec, sampling_rate)), Len(data))
        mean == NpMean(PySlice(data, n_samples))
    IN Return([i \in 1..Len(data) |-> RatSub(Rat(data[i], 1), mean)])

\* ------------------------------------------------------------------- state

VARIABLES
    ns,          \* NS series handed to the peak functions
    ew,          \* EW series
    ud,          \* UD series
    called,      \* the peak function that was called, "none" before the call
    ret,         \* what the call returned or raised
    nied,        \* process_nied_station: its input files, position and locals
    nied_out,    \* process_nied_station: the files of the output directory
    fourier,     \* calculate_fourier_spectrum: its arguments and what it returned
    baseline,    \* apply_baseline_correction: its arguments and what it returned
    ifp,         \* integrate_fft_padded: its arguments, position and locals
    crs,         \* calculate_response_spectrum: its arguments, position and locals
    station_dir, \* the files of the station directory a process_station works on
    proc,        \* a running process_station: its script, position, locals and calls
    jma,         \* process_jma_station: its input file, position and locals
    jma_out,     \* process_jma_station: the files of the output directory
    batch,       \* a batch loop: its inputs, position and locals
    eng,         \* a caller of the engine functions: its array and the calls it has made
    pool,        \* workers running process_station concurrently: the files and each worker's position
    dts          \* generate_datetime_series: its arguments and the list it returned

peakVars == <<ns, ew, ud, called, ret>>

niedVars == <<nied, nied_out>>

fourierVars == <<fourier>>

baselineVars == <<baseline>>

stationVars == <<station_dir, proc>>

ifpVars == <<ifp>>

crsVars == <<crs>>

jmaVars == <<jma, jma_out>>

batchVars == <<batch>>

engVars == <<eng>>

poolVars == <<pool>>

dtsVars == <<dts>>

vars == <<ns, ew, ud, called, ret, nied, nied_out, fourier, baseline, station_dir, proc, ifp, crs, jma, jma_out, batch, eng, pool, dts>>

\* What the actions of each specification leave alone.
peakFrame == <<niedVars, fourierVars, baselineVars, stationVars, ifpVars, crsVars, jmaVars, batchVars, engVars, poolVars, dtsVars>>

niedFrame == <<peakVars, fourierVars, baselineVars, stationVars, ifpVars, crsVars, jmaVars, batchVars, engVars, poolVars, dtsVars>>

fourierFrame == <<peakVars, niedVars, baselineVars, stationVars, ifpVars, crsVars, jmaVars, batchVars, engVars, poolVars, dtsVars>>

baselineFrame == <<peakVars, niedVars, fourierVars, stationVars, ifpVars, crsVars, jmaVars, batchVars, engVars, poolVars, dtsVars>>

stationFrame == <<peakVars, niedVars, fourierVars, baselineVars, ifpVars, crsVars, jmaVars, batchVars, engVars, poolVars, dtsVars>>

ifpFrame == <<peakVars, niedVars, fourierVars, baselineVars, stationVars, crsVars, jmaVars, batchVars, engVars, poolVars, dtsVars>>

crsFrame == <<peakVars, niedVars, fourierVars, baselineVars, stationVars, ifpVars, jmaVars, batchVars, engVars, poolVars, dtsVars>>

jmaFrame == <<peakVars, niedVars, fourierVars, baselineVars, stationVars, ifpVars, crsVars, batchVars, engVars, poolVars, dtsVars>>

batchFrame == <<peakVars, niedVars, fourierVars, baselineVars, stationVars, ifpVars, crsVars, jmaVars, engVars, poolVars, dtsVars>>

engFrame == <<peakVars, niedVars, fourierVars, baselineVars, stationVars, ifpVars, crsVars, jmaVars, batchVars, poolVars, dtsVars>>

poolFrame == <<peakVars, niedVars, fourierVars, baselineVars, stationVars, ifpVars, crsVars, jmaVars, batchVars, engVars, dtsVars>>

dtsFrame == <<peakVars, niedVars, fourierVars, baselineVars, stationVars, ifpVars, crsVars, jmaVars, batchVars, engVars, poolVars>>

\* The peak functions are not being exercised.
PeakIdle == ns = <<>> /\ ew = <<>> /\ ud = <<>> /\ called = "none" /\ ret = NoResult

\* A file that has not been written.
Absent == [exists |-> FALSE]

\* A file with content c.
File(c) == [exists |-> TRUE, content |-> c]

\* process_nied_station is not running.
NiedIdle ==
    /\ nied = [pc |-> "idle"]
    /\ nied_out = [waveform_csv |-> Absent, metadata_yml |-> Absent]

\* calculate_fourier_spectrum is not being exercised.
FourierIdle == fourier = [called |-> FALSE]

\* apply_baseline_correction is not being exercised.
BaselineIdle == baseline = [called |-> FALSE]

\* No process_station is running and there is no station directory.
StationIdle ==
    /\ station_dir = [waveform_csv |-> Absent, metadata_yml |-> Absent,
                      velocity_csv |-> Absent, displacement_csv |-> Absent,
                      fourier_spectrum_csv |-> Absent, response_spectrum_csv |-> Absent]
    /\ proc = [pc |-> "idle"]

\* Only the peak functions, process_nied_station, calculate_fourier_spectrum,
\* apply_baseline_correction or a process_station run.
\* integrate_fft_padded is not being exercised.
IfpIdle == ifp = [pc |-> "idle"]

\* calculate_response_spectrum is not being exercised.
CrsIdle == crs = [pc |-> "idle"]

\* process_jma_station is not running.
JmaIdle == jma = [pc |-> "idle"] /\ jma_out = [waveform_csv |-> Absent, metadata_yml |-> Absent]

\* No batch loop is running.
BatchIdle == batch = [pc |-> "idle"]

\* No caller of the engine functions is running.
EngIdle == eng = [pc |-> "idle"]

\* No workers are running.
PoolIdle == pool = [pc |-> "idle"]

\* generate_datetime_series is not being called.
DtsIdle == dts = [pc |-> "idle"]

OnlyPeak == NiedIdle /\ FourierIdle /\ BaselineIdle /\ StationIdle /\ IfpIdle /\ CrsIdle /\ JmaIdle /\ BatchIdle /\ EngIdle /\ PoolIdle /\ DtsIdle

OnlyNied == PeakIdle /\ FourierIdle /\ BaselineIdle /\ StationIdle /\ IfpIdle /\ CrsIdle /\ JmaIdle /\ BatchIdle /\ EngIdle /\ PoolIdle /\ DtsIdle

OnlyFourier == PeakIdle /\ NiedIdle /\ BaselineIdle /\ StationIdle /\ IfpIdle /\ CrsIdle /\ JmaIdle /\ BatchIdle /\ EngIdle /\ PoolIdle /\ DtsIdle

OnlyBaseline == PeakIdle /\ NiedIdle /\ FourierIdle /\ StationIdle /\ IfpIdle /\ CrsIdle /\ JmaIdle /\ BatchIdle /\ EngIdle /\ PoolIdle /\ DtsIdle

OnlyStation == PeakIdle /\ NiedIdle /\ FourierIdle /\ BaselineIdle /\ IfpIdle /\ CrsIdle /\ JmaIdle /\ BatchIdle /\ EngIdle /\ PoolIdle /\ DtsIdle

OnlyIfp == PeakIdle /\ NiedIdle /\ FourierIdle /\ BaselineIdle /\ StationIdle /\ CrsIdle /\ JmaIdle /\ BatchIdle /\ EngIdle /\ PoolIdle /\ DtsIdle

OnlyCrs == PeakIdle /\ NiedIdle /\ FourierIdle /\ BaselineIdle /\ StationIdle /\ IfpIdle /\ JmaIdle /\ BatchIdle /\ EngIdle /\ PoolIdle /\ DtsIdle

OnlyJma == PeakIdle /\ NiedIdle /\ FourierIdle /\ BaselineIdle /\ StationIdle /\ IfpIdle /\ CrsIdle /\ BatchIdle /\ EngIdle /\ PoolIdle /\ DtsIdle

OnlyBatch == PeakIdle /\ NiedIdle /\ FourierIdle /\ BaselineIdle /\ StationIdle /\ IfpIdle /\ CrsIdle /\ JmaIdle /\ EngIdle /\ PoolIdle /\ DtsIdle

OnlyEng == PeakIdle /\ NiedIdle /\ FourierIdle /\ BaselineIdle /\ StationIdle /\ IfpIdle /\ CrsIdle /\ JmaIdle /\ BatchIdle /\ PoolIdle /\ DtsIdle

OnlyPool == PeakIdle /\ NiedIdle /\ FourierIdle /\ BaselineIdle /\ StationIdle /\ IfpIdle /\ CrsIdle /\ JmaIdle /\ BatchIdle /\ EngIdle /\ DtsIdle

OnlyDts == PeakIdle /\ NiedIdle /\ FourierIdle /\ BaselineIdle /\ StationIdle /\ IfpIdle /\ CrsIdle /\ JmaIdle /\ BatchIdle /\ EngIdle /\ PoolIdle

\* ------------------------------------------------------ peak specification

\* The inputs of the peak functions: every triple of bounded series, equal
\* in length or not, and the two scenarios of the documentation.
PeakInputs ==
    {<<a, b, c>> : a \in SeriesUpTo(MaxLen), b \in SeriesUpTo(MaxLen), c \in SeriesUpTo(MaxLen)}
        \cup {<<TieSeries, TieSeries, TieSeries>>,
              <<ImpulseSeries, ImpulseSeries, ImpulseSeries>>}

PeakInit ==
    /\ \E t \in PeakInputs : ns = t[1] /\ ew = t[2] /\ ud = t[3]
    /\ called = "none"
    /\ ret = NoResult
    /\ OnlyPeak

CallSignedPeak ==
    /\ called = "none"
    /\ called' = "calc_signed_peak"
    /\ ret' = calc_signed_peak(ns)
    /\ UNCHANGED <<ns, ew, ud, peakFrame>>

CallPeakHorizontal ==
    /\ called = "none"
    /\ called' = "calc_peak_horizontal"
    /\ ret' = calc_peak_horizontal(ns, ew)
    /\ UNCHANGED <<ns, ew, ud, peakFrame>>

CallPeakTotal ==
    /\ called = "none"
    /\ called' = "calc_peak_total"
    /\ ret' = calc_peak_total(ns, ew, ud)
    /\ UNCHANGED <<ns, ew, ud, peakFrame>>

PeakNext == CallSignedPeak \/ CallPeakHorizontal \/ CallPeakTotal

SpecPeak == PeakInit /\ [][PeakNext]_vars

\* ------------------------------------------------------------ peak claims

\* The lowest position whose absolute value is the maximum of the series.
LowestPeakIndex(S) ==
    CHOOSE i \in 1..Len(S) :
        /\ \A j \in 1..Len(S) : Abs(S[j]) <= Abs(S[i])
        /\ \A j \in 1..(i - 1) : Abs(S[j]) < Abs(S[i])

\* C1: for every non-empty series S, calc_signed_peak(S) returns S[i] with
\* its sign, i the lowest index with |S[i]| = max |S|; for +5 at index 1 and
\* -5 at index 3 the sample at index 1 is returned.
C1_SignedPeakLowestIndex ==
    (called = "calc_signed_peak" /\ Len(ns) >= 1) =>
        /\ ret = Return(ns[LowestPeakIndex(ns)])
        /\ \E i \in 1..Len(ns) : ret.value = ns[i] /\ \A j \in 1..Len(ns) : Abs(ns[j]) <= Abs(ns[i])
        /\ (ns = TieSeries => ret.value = ns[2])

\* The signed peak of the tie series has been computed and is +5 gal.
C1_Witness ==
    /\ called = "calc_signed_peak"
    /\ ns = TieSeries
    /\ ret = Return(5 * GalUnit)

SameLength2 == Len(ns) >= 1 /\ Len(ew) = Len(ns)

SameLength3 == SameLength2 /\ Len(ud) = Len(ns)

\* C2: for equal-length non-empty series the horizontal and the total peak
\* are >= 0 and the total peak is >= the horizontal peak; for the impulse
\* series with identical NS/EW/UD the total peak is 10*sqrt(3) gal: it is the
\* root, rounded down to the fixed-point resolution, of 300 gal^2.
C2_PeaksNonNegativeAndOrdered ==
    /\ (called = "calc_peak_horizontal" /\ SameLength2) => (ret.ok /\ ret.value >= 0)
    /\ (called = "calc_peak_total" /\ SameLength3) =>
           /\ ret.ok
           /\ ret.value >= 0
           /\ calc_peak_horizontal(ns, ew).ok
           /\ ret.value >= calc_peak_horizontal(ns, ew).value
    /\ (called = "calc_peak_total" /\ ns = ImpulseSeries /\ ew = ns /\ ud = ns) =>
           /\ ret.ok
           /\ ret.value * ret.value <= 300 * GalUnit * GalUnit
           /\ (ret.value + 1) * (ret.value + 1) > 300 * GalUnit * GalUnit

\* The total peak of the impulse scenario has been computed, and it exceeds
\* the horizontal peak of the same records.
C2_Witness ==
    /\ called = "calc_peak_total"
    /\ ns = ImpulseSeries /\ ew = ns /\ ud = ns
    /\ ret.ok
    /\ ret.value > calc_peak_horizontal(ns, ew).value
    /\ calc_peak_horizontal(ns, ew).value > 0

\* The series a peak function was called with break its precondition: one
\* is empty or two differ in length.
PeakInputInvalid ==
    \/ called = "calc_signed_peak" /\ Len(ns) = 0
    \/ called = "calc_peak_horizontal" /\ ~SameLength2
    \/ called = "calc_peak_total" /\ ~SameLength3

\* C3: the peak functions fail with an error and return no value whenever a
\* series is empty or the series differ in length, also when one series has
\* length 1 and another is longer.
C3_InvalidInputFails == PeakInputInvalid => (~ret.ok /\ ret.error = "ValueError")

\* ------------------------------------------------- NIED station conversion

\* Sampling frequencies of the NIED headers the model draws from (Hz).
SamplingFreqs == {1, 100}

\* timedelta(seconds=1/sampling_freq) in microseconds: timedelta rounds to the
\* nearest microsecond, ties to even.
IntervalUs(sampling_freq) ==
    LET q == 1000000 \div sampling_freq
        r == 1000000 % sampling_freq
    IN IF 2 * r < sampling_freq THEN q
       ELSE IF 2 * r > sampling_freq THEN q + 1
       ELSE IF q % 2 = 0 THEN q ELSE q + 1

\* generate_datetime_series: one timestamp per sample; the seconds come from
\* start_dt + i * interval, the milliseconds from (i % sampling_freq).
generate_datetime_series(record_time, num_samples, sampling_freq) ==
    [k \in 1..num_samples |->
        [sec |-> record_time + ((k - 1) * IntervalUs(sampling_freq)) \div 1000000,
         ms |-> (((k - 1) % sampling_freq) * 1000) \div sampling_freq]]

\* The sample count taken from the EW record alone (mutation of
\* nied_num_samples).
nied_num_samples_ew_only(ew_data, ns_data, ud_data) == Len(ew_data)

\* num_samples = min(len(ew_data), len(ns_data), len(ud_data)).
nied_num_samples(ew_data, ns_data, ud_data) ==
    Min2(Len(ew_data), Min2(Len(ns_data), Len(ud_data)))

\* pd.DataFrame from columns: ValueError unless all have the same length.
DataFrame(datetimes, ns_data, ew_data, ud_data) ==
    IF Len(ns_data) = Len(datetimes) /\ Len(ew_data) = Len(datetimes) /\ Len(ud_data) = Len(datetimes)
    THEN Return([datetime |-> datetimes, NS |-> ns_data, EW |-> ew_data, UD |-> ud_data])
    ELSE Raise("ValueError")

\* round(x, 3) of a fixed-point value: the nearest multiple of 0.001 gal,
\* a tie going to the even multiple.
Round3(x) ==
    LET step == GalUnit \div 1000
        q == x \div step
        r == x % step
    IN IF 2 * r < step THEN q * step
       ELSE IF 2 * r > step THEN (q + 1) * step
       ELSE IF q % 2 = 0 THEN q * step ELSE (q + 1) * step

\* The three component files of a station: their data sections as parsed by
\* parse_nied_data, and whether the headers parse.
NiedFiles ==
    [EW : SeriesUpTo(MaxLen), NS : SeriesUpTo(MaxLen), UD : SeriesUpTo(MaxLen),
     header_ok : BOOLEAN, sampling_freq : SamplingFreqs]

\* The locals of process_nied_station before anything is assigned.
NiedStart(files) ==
    [pc |-> "parse", files |-> files, ew_data |-> <<>>, ns_data |-> <<>>, ud_data |-> <<>>,
     num_samples |-> 0, datetimes |-> <<>>, ret |-> "running"]

NiedInit ==
    /\ OnlyNied
    /\ \E files \in NiedFiles : nied = NiedStart(files)
    /\ nied_out = [waveform_csv |-> Absent, metadata_yml |-> Absent]

\* except Exception: log and return False.
NiedFail == [nied EXCEPT !.pc = "return", !.ret = "False"]

\* Lines 128-149: the headers and the data sections are parsed; a malformed
\* header raises.
NiedParse ==
    /\ nied.pc = "parse"
    /\ nied' = IF ~nied.files.header_ok THEN NiedFail
               ELSE [nied EXCEPT !.pc = "trim", !.ew_data = nied.files.EW,
                                 !.ns_data = nied.files.NS, !.ud_data = nied.files.UD]
    /\ UNCHANGED <<nied_out, niedFrame>>

\* Lines 152-155: the three series are cut to the shortest one.
NiedTrim ==
    /\ nied.pc = "trim"
    /\ LET n == nied_num_samples(nied.ew_data, nied.ns_data, nied.ud_data)
       IN nied' = [nied EXCEPT !.pc = "datetimes", !.num_samples = n,
                               !.ew_data = PySlice(nied.ew_data, n),
                               !.ns_data = PySlice(nied.ns_data, n),
                               !.ud_data = PySlice(nied.ud_data, n)]
    /\ UNCHANGED <<nied_out, niedFrame>>

\* Lines 158-162: the timestamps of num_samples samples.
NiedDatetimes ==
    /\ nied.pc = "datetimes"
    /\ nied' = [nied EXCEPT !.pc = "waveform",
                            !.datetimes = generate_datetime_series(0, nied.num_samples,
                                                                   nied.files.sampling_freq)]
    /\ UNCHANGED <<nied_out, niedFrame>>

\* Lines 165-175: waveform.csv is written from the table of the timestamps and
\* the three series.
NiedWaveform ==
    /\ nied.pc = "waveform"
    /\ LET df == DataFrame(nied.datetimes, nied.ns_data, nied.ew_data, nied.ud_data)
       IN IF ~df.ok
          THEN nied' = NiedFail /\ UNCHANGED nied_out
          ELSE /\ nied' = [nied EXCEPT !.pc = "peaks"]
               /\ nied_out' = [nied_out EXCEPT !.waveform_csv = File(df.value)]
    /\ UNCHANGED niedFrame

\* Lines 178-221: the five peaks are computed and metadata.yml is written; a
\* peak function that raises ends the station with False.
NiedPeaksAndMetadata ==
    /\ nied.pc = "peaks"
    /\ LET peak_ns == calc_signed_peak(nied.ns_data)
           peak_ew == calc_signed_peak(nied.ew_data)
           peak_ud == calc_signed_peak(nied.ud_data)
           peak_h == calc_peak_horizontal(nied.ns_data, nied.ew_data)
           peak_total == calc_peak_total(nied.ns_data, nied.ew_data, nied.ud_data)
       IN IF ~(peak_ns.ok /\ peak_ew.ok /\ peak_ud.ok /\ peak_h.ok /\ peak_total.ok)
          THEN nied' = NiedFail /\ UNCHANGED nied_out
          ELSE /\ nied' = [nied EXCEPT !.pc = "return", !.ret = "True"]
               /\ nied_out' = [nied_out EXCEPT !.metadata_yml = File(
                      [start_time |-> nied.datetimes[1],
                       end_time |-> nied.datetimes[Len(nied.datetimes)],
                       sampling_rate_hz |-> nied.files.sampling_freq,
                       num_samples |-> nied.num_samples,
                       max_acceleration |->
                           [NS |-> Round3(peak_ns.value), EW |-> Round3(peak_ew.value),
                            UD |-> Round3(peak_ud.value), H |-> Round3(peak_h.value),
                            total |-> Round3(peak_total.value)]])]
    /\ UNCHANGED niedFrame

NiedNext == NiedParse \/ NiedTrim \/ NiedDatetimes \/ NiedWaveform \/ NiedPeaksAndMetadata

SpecNied == NiedInit /\ [][NiedNext]_vars

\* The first m samples of a parsed series.
Prefix(parsed, m) == [i \in 1..m |-> parsed[i]]

\* The shortest of the three parsed lengths.
NiedMinLen == Min2(Len(nied.files.EW), Min2(Len(nied.files.NS), Len(nied.files.UD)))

\* The three series held by process_nied_station are the prefixes of the
\* parsed series of the common length NiedMinLen.
NiedTrimmed ==
    /\ nied.ns_data = Prefix(nied.files.NS, NiedMinLen)
    /\ nied.ew_data = Prefix(nied.files.EW, NiedMinLen)
    /\ nied.ud_data = Prefix(nied.files.UD, NiedMinLen)

\* C4: in process_nied_station the NS, EW and UD series that reach the
\* timestamp generation, the waveform table and the peak calculations all
\* have the length min of the three parsed lengths and are prefixes of the
\* parsed series: the timestamps are as many, the columns of waveform.csv are
\* those prefixes, and the persisted peaks are the peaks of those prefixes.
C4_TrimmedBeforeDownstream ==
    /\ nied.pc \in {"datetimes", "waveform", "peaks"} => NiedTrimmed
    /\ nied.pc \in {"datetimes", "waveform", "peaks"} => nied.num_samples = NiedMinLen
    /\ nied.pc \in {"waveform", "peaks"} => Len(nied.datetimes) = NiedMinLen
    /\ nied_out.waveform_csv.exists =>
           /\ nied_out.waveform_csv.content.NS = Prefix(nied.files.NS, NiedMinLen)
           /\ nied_out.waveform_csv.content.EW = Prefix(nied.files.EW, NiedMinLen)
           /\ nied_out.waveform_csv.content.UD = Prefix(nied.files.UD, NiedMinLen)
           /\ Len(nied_out.waveform_csv.content.datetime) = NiedMinLen
    /\ nied_out.metadata_yml.exists =>
           /\ nied_out.metadata_yml.content.num_samples = NiedMinLen
           /\ nied_out.metadata_yml.content.max_acceleration.UD =
                  Round3(calc_signed_peak(Prefix(nied.files.UD, NiedMinLen)).value)
           /\ nied_out.metadata_yml.content.max_acceleration.total =
                  Round3(calc_peak_total(Prefix(nied.files.NS, NiedMinLen),
                                         Prefix(nied.files.EW, NiedMinLen),
                                         Prefix(nied.files.UD, NiedMinLen)).value)

\* A station whose parsed EW record is longer than its NS record has been
\* converted: the table and the metadata were written from the trimmed series.
C4_Witness ==
    /\ nied.pc = "return" /\ nied.ret = "True"
    /\ Len(nied.files.EW) > Len(nied.files.NS)
    /\ Len(nied.files.UD) > Len(nied.files.NS)
    /\ nied_out.waveform_csv.exists
    /\ Len(nied_out.waveform_csv.content.EW) = Len(nied.files.NS)
    /\ Len(nied_out.waveform_csv.content.EW) < Len(nied.files.EW)
    /\ nied_out.metadata_yml.exists

\* ---------------------------------------------- Fourier spectrum: the calls

\* Sample values of the series handed to calculate_fourier_spectrum.
FourierSamples == {-GalUnit, 0, GalUnit \div 2, GalUnit}

\* The series handed to calculate_fourier_spectrum: every series over
\* FourierSamples of a length in FftLengths, and the empty series.
FourierInputs == UNION {[1..n -> FourierSamples] : n \in FftLengths \cup {0}}

FourierInit ==
    /\ OnlyFourier
    /\ \E data \in FourierInputs, sampling_rate \in SamplingRates :
           fourier = [called |-> FALSE, data |-> data, sampling_rate |-> sampling_rate,
                      ret |-> NoResult]

CallFourierSpectrum ==
    /\ ~fourier.called
    /\ fourier' = [fourier EXCEPT !.called = TRUE,
                       !.ret = calculate_fourier_spectrum(fourier.data, fourier.sampling_rate)]
    /\ UNCHANGED fourierFrame

FourierNext == CallFourierSpectrum

SpecFourier == FourierInit /\ [][FourierNext]_vars

\* --------------------------------------------------- Fourier spectrum claims

\* calculate_fourier_spectrum has returned for an input of n >= 1 samples.
FourierReturned == fourier.called /\ Len(fourier.data) >= 1

\* Number of samples of the input.
FourierN == Len(fourier.data)

\* C5: for an n-sample input, n >= 1, at a positive sampling rate the
\* frequency grid and the amplitude array both have floor(n/2)+1 entries, the
\* frequencies are f_k = k/(n*dt) = k*rate/n, they start at 0 Hz and are
\* strictly increasing in k.
C5_FrequencyGrid ==
    FourierReturned =>
        /\ fourier.ret.ok
        /\ Len(fourier.ret.value.freq) = FourierN \div 2 + 1
        /\ Len(fourier.ret.value.amplitude) = FourierN \div 2 + 1
        /\ \A k \in 0..(FourierN \div 2) :
               /\ fourier.ret.value.freq[k + 1].den > 0
               /\ RatEq(fourier.ret.value.freq[k + 1], Rat(k * fourier.sampling_rate, FourierN))
        /\ fourier.ret.value.freq[1].num = 0
        /\ \A k \in 1..(FourierN \div 2) :
               RatLt(fourier.ret.value.freq[k], fourier.ret.value.freq[k + 1])

\* The spectrum of a 6-sample record at 100 Hz has been computed: four bins,
\* the last one at the Nyquist frequency of 50 Hz.
C5_Witness ==
    /\ fourier.called /\ FourierN = 6 /\ fourier.sampling_rate = 100
    /\ fourier.ret.ok
    /\ Len(fourier.ret.value.freq) = 4
    /\ RatEq(fourier.ret.value.freq[4], Rat(50, 1))

\* |F_k| of the input, k = 0..floor(n/2).
FourierAbsBin(k) == NpAbsComplex(rfft(fourier.data).value, FourierN)[k + 1]

\* Bin k is the DC bin or, for even n, the Nyquist bin.
FourierEdgeBin(k) == k = 0 \/ (FourierN % 2 = 0 /\ k = FourierN \div 2)

\* C6: for every n >= 1 the amplitude of bin k is |F_k|*dt*2 if the bin is
\* strictly interior and |F_k|*dt, halved exactly once, if k = 0 or if n is
\* even and k is the last index; for odd n >= 3 the last bin keeps the factor
\* 2 and for n = 1 the single bin is halved once.
C6_BinFactors ==
    FourierReturned =>
        /\ fourier.ret.ok
        /\ \A k \in 0..(FourierN \div 2) :
               /\ fourier.ret.value.amplitude[k + 1].den > 0
               /\ RatEq(fourier.ret.value.amplitude[k + 1],
                        Rat(FourierAbsBin(k) * (IF FourierEdgeBin(k) THEN 1 ELSE 2),
                            fourier.sampling_rate))
        /\ FourierN = 1 =>
               RatEq(fourier.ret.value.amplitude[1], Rat(Abs(fourier.data[1]), fourier.sampling_rate))
        /\ (FourierN % 2 = 1 /\ FourierN >= 3) =>
               RatEq(fourier.ret.value.amplitude[FourierN \div 2 + 1],
                     Rat(2 * FourierAbsBin(FourierN \div 2), fourier.sampling_rate))

\* A 3-sample spectrum whose last bin is not zero has been computed: the odd
\* length whose last bin keeps the factor 2.
C6_Witness ==
    /\ fourier.called /\ FourierN = 3 /\ fourier.ret.ok
    /\ FourierAbsBin(1) > 0
    /\ fourier.ret.value.amplitude[2].num > 0
    /\ fourier.ret.value.amplitude[1].num > 0

\* The input is the constant series of value c.
FourierConstant(c) == \A i \in 1..FourierN : fourier.data[i] = c

\* C7: for a constant series of value c over n >= 1 samples the amplitude is
\* |c|*n*dt at bin 0 and 0 at every other bin.
C7_ConstantSeries ==
    \A c \in FourierSamples :
        (FourierReturned /\ FourierConstant(c)) =>
            /\ fourier.ret.ok
            /\ RatEq(fourier.ret.value.amplitude[1], Rat(Abs(c) * FourierN, fourier.sampling_rate))
            /\ \A k \in 1..(FourierN \div 2) : fourier.ret.value.amplitude[k + 1].num = 0

\* The spectrum of a constant non-zero 6-sample series has been computed.
C7_Witness ==
    /\ fourier.called /\ FourierN = 6 /\ FourierConstant(-GalUnit)
    /\ fourier.ret.ok
    /\ fourier.ret.value.amplitude[1].num > 0
    /\ fourier.ret.value.amplitude[4].num = 0

\* ------------------------------------------- baseline correction: the calls

\* Window lengths in seconds: half a second, the default BASELINE_WINDOW_SEC
\* of one second, and two and a half seconds.
WindowSecs == {Rat(1, 2), Rat(1, 1), Rat(5, 2)}

BaselineInit ==
    /\ OnlyBaseline
    /\ \E data \in SeriesUpTo(MaxLen + 1), sampling_rate \in SamplingRates, window_sec \in WindowSecs :
           baseline = [called |-> FALSE, data |-> data, sampling_rate |-> sampling_rate,
                       window_sec |-> window_sec, ret |-> NoResult]

CallBaselineCorrection ==
    /\ ~baseline.called
    /\ baseline' = [baseline EXCEPT !.called = TRUE,
                        !.ret = apply_baseline_correction(baseline.data, baseline.sampling_rate,
                                                          baseline.window_sec)]
    /\ UNCHANGED baselineFrame

BaselineNext == CallBaselineCorrection

SpecBaseline == BaselineInit /\ [][BaselineNext]_vars

\* ----------------------------------------------- baseline correction claims

\* floor(window_sec * rate) of the call.
BaselineWindow == (baseline.window_sec.num * baseline.sampling_rate) \div baseline.window_sec.den

\* min(floor(window_sec * rate), n) of the call.
BaselineM == Min2(BaselineWindow, Len(baseline.data))

RECURSIVE RatNumSum(_, _)
\* Sum of the numerators of the first m entries of a series of rationals that
\* share one denominator.
RatNumSum(out, m) == IF m = 0 THEN 0 ELSE out[m].num + RatNumSum(out, m - 1)

\* C8: apply_baseline_correction subtracts from every sample the mean of the
\* first m = min(floor(window_sec*rate), n) samples: the output has the length
\* of the input, every output sample is a number that differs from its input
\* sample by that one scalar, and the first m output samples have mean zero;
\* for every n >= 1 and positive window_sec and rate, also when
\* floor(window_sec*rate) is 0 or exceeds n.
C8_BaselineMeanRemoved ==
    (baseline.called /\ Len(baseline.data) >= 1) =>
        LET out == baseline.ret.value
            data == baseline.data
            m == BaselineM
        IN /\ baseline.ret.ok
           /\ Len(out) = Len(data)
           /\ \A i \in 1..Len(out) : out[i].den > 0
           /\ \A i \in 1..Len(out) : RatEq(RatSub(out[i], out[1]), Rat(data[i] - data[1], 1))
           /\ \A i \in 1..Len(out) :
                  m >= 1 => RatEq(RatMulInt(out[i], m), Rat(data[i] * m - SumSeq(SubSeq(data, 1, m)), 1))
           /\ \A i \in 1..Len(out) : out[i].den = out[1].den
           /\ RatNumSum(out, m) = 0

\* The part of C8 the code satisfies: the same statement for windows of at
\* least one sample.
BaselineMeanRemovedFromOneSample ==
    BaselineWindow >= 1 => C8_BaselineMeanRemoved

\* ------------------------------------------ velocity and displacement: stages

\* HIGHPASS_FREQ = 0.1 Hz and HIGHPASS_ORDER = 4.
HIGHPASS_FREQ == Rat(1, 10)

HIGHPASS_ORDER == 4

\* BASELINE_WINDOW_SEC = 1.0 s.
BASELINE_WINDOW_SEC == Rat(1, 1)

\* The default pad_factor of integrate_fft_padded.
DEFAULT_PAD_FACTOR == 4

\* a / b for a positive b.
RatDiv(a, b) == Rat(a.num * b.den, a.den * b.num)

\* scipy.signal.filtfilt pads each end with 3 * max(len(a), len(b)) samples,
\* and a Butterworth filter of the given order has order + 1 coefficients.
filtfilt_padlen(order) == 3 * (order + 1)

\* butter taken to accept a cutoff at the Nyquist frequency itself, a
\* normalized cutoff of exactly 1.
apply_highpass_filter_nyquist_accepted(data, sampling_rate, cutoff, order) ==
    IF sampling_rate = 0 THEN Raise("ZeroDivisionError")
    ELSE LET normalized_cutoff == RatDiv(cutoff, Rat(sampling_rate, 2))
         IN IF ~(RatLt(Rat(0, 1), normalized_cutoff)
                 /\ ~RatLt(Rat(1, 1), normalized_cutoff))
            THEN Raise("ValueError")
            ELSE IF Len(data) <= filtfilt_padlen(order)
            THEN Raise("ValueError")
            ELSE Return([fn |-> "filtfilt", btype |-> "high", order |-> order,
                         Wn |-> normalized_cutoff, x |-> data, n |-> Len(data)])

\* apply_highpass_filter.  The Butterworth coefficients are irrational, so the
\* filtered series is kept as the application of filtfilt to its input: what
\* was filtered, with which filter, and how many samples came out.  The
\* failures are the code's: a zero sampling_rate divides by zero, butter
\* rejects a normalized cutoff outside (0, 1), and filtfilt rejects a series
\* no longer than its padding.
apply_highpass_filter(data, sampling_rate, cutoff, order) ==
    IF sampling_rate = 0 THEN Raise("ZeroDivisionError")
    ELSE LET nyquist == Rat(sampling_rate, 2)
             normalized_cutoff == RatDiv(cutoff, nyquist)
         IN IF ~(RatLt(Rat(0, 1), normalized_cutoff) /\ RatLt(normalized_cutoff, Rat(1, 1)))
            THEN Raise("ValueError")
            ELSE IF Len(data) <= filtfilt_padlen(order)
            THEN Raise("ValueError")
            ELSE Return([fn |-> "filtfilt", btype |-> "high", order |-> order,
                         Wn |-> normalized_cutoff, x |-> data, n |-> Len(data)])

\* integrate_fft_padded on a filtered series.  The division by i * omega
\* involves pi, so the two outputs are kept as applications of the integrator
\* to its input; both are cut back to the n_original samples of the input.
integrate_fft_padded(data, sampling_rate, pad_factor) ==
    LET n_original == data.n
        n_padded == n_original * pad_factor
        out(which) == [fn |-> "integrate_fft_padded", out |-> which, x |-> data,
                       sampling_rate |-> sampling_rate, n_padded |-> n_padded,
                       n |-> n_original]
    IN IF sampling_rate = 0 THEN Raise("ZeroDivisionError")
       ELSE IF n_padded = 0 THEN Raise("ValueError")
       ELSE Return([velocity |-> out("velocity"), displacement |-> out("displacement")])

\* round(peak(...), 3) of integrated series: the peak function and the
\* series handed to it.
rounded_peak(fn, arrays) == [fn |-> "round", ndigits |-> 3, x |-> [fn |-> fn, args |-> arrays]]

\* The five-entry peak summary written to metadata.yml.
peak_summary(x_ns, x_ew, x_ud) ==
    [NS |-> rounded_peak("calc_signed_peak", <<x_ns>>),
     EW |-> rounded_peak("calc_signed_peak", <<x_ew>>),
     UD |-> rounded_peak("calc_signed_peak", <<x_ud>>),
     H |-> rounded_peak("calc_peak_horizontal", <<x_ns, x_ew>>),
     total |-> rounded_peak("calc_peak_total", <<x_ns, x_ew, x_ud>>)]

\* ------------------------------------------------- the station directories

\* The components in the order the scripts process them.
COMPONENTS == <<"NS", "EW", "UD">>

\* The sampling rate the scripts assume when metadata.yml does not give one.
DEFAULT_SAMPLING_RATE == 100

\* dict.get(key, default).
DictGet(d, key, default) == IF key \in DOMAIN d THEN d[key] ELSE default

\* metadata.yml as yaml.safe_load sees it: a mapping, or text that does not
\* parse and raises.
YamlDoc(d) == [parses |-> TRUE, dict |-> d]

YamlMalformed == [parses |-> FALSE]

\* The sampling rates a metadata.yml may carry.
StationRates == {0, 1, 100}

\* The metadata.yml files of a station directory: none, one that does not
\* parse, one without a record entry, and the converters' with a rate.
MetadataFiles ==
    {Absent, File(YamlMalformed), File(YamlDoc([source |-> "NIED"]))}
        \cup {File(YamlDoc([source |-> "NIED", record |-> [sampling_rate_hz |-> r]])) :
                 r \in StationRates}

\* metadata.get('record', {}).get('sampling_rate_hz', 100).
metadata_sampling_rate(metadata) ==
    DictGet(DictGet(metadata, "record", <<>>), "sampling_rate_hz", DEFAULT_SAMPLING_RATE)

\* Column shapes of n samples: a constant offset, a single spike, a step.
Flat(n) == [i \in 1..n |-> GalUnit \div 2]

Spike(n) == [i \in 1..n |-> IF i = (n + 1) \div 2 THEN GalUnit ELSE 0]

Step(n) == [i \in 1..n |-> IF 2 * i <= n THEN GalUnit ELSE -GalUnit]

Columns(n) == {Flat(n), Spike(n), Step(n)}

\* waveform.csv as the converters write it: a datetime column and the three
\* components, all of the same length.
Waveform(ns_col, ew_col, ud_col) ==
    [datetime |-> generate_datetime_series(0, Len(ns_col), DEFAULT_SAMPLING_RATE),
     NS |-> ns_col, EW |-> ew_col, UD |-> ud_col]

WaveformsOfLen(n) ==
    {Waveform(a, b, c) : a \in Columns(n), b \in Columns(n), c \in Columns(n)}

\* A station directory before a script runs on it.
StationDir(waveform, metadata) ==
    [waveform_csv |-> waveform, metadata_yml |-> metadata,
     velocity_csv |-> Absent, displacement_csv |-> Absent,
     fourier_spectrum_csv |-> Absent, response_spectrum_csv |-> Absent]

\* The samples of one component with the first sample subtracted: a
\* one-sample baseline correction (mutation of column_values).
column_values_conditioned(df, comp) == [i \in 1..Len(df[comp]) |-> df[comp][i] - df[comp][1]]

\* df[comp].values: the samples of one component as read from waveform.csv.
column_values(df, comp) == df[comp]

\* A local that has not been assigned.
Unassigned == [assigned |-> FALSE]

\* The locals of a process_station before anything is assigned.
StationStart(script) ==
    [script |-> script, pc |-> "exists", sampling_rate |-> DEFAULT_SAMPLING_RATE,
     metadata |-> <<>>, dt |-> Unassigned, periods |-> Unassigned,
     df |-> Waveform(<<>>, <<>>, <<>>), comp |-> 1, acc |-> <<>>,
     results |-> <<>>, calls |-> <<>>, ret |-> "running"]

\* return False, from the missing-file check or from except Exception.
StationFail == [proc EXCEPT !.pc = "return", !.ret = "False"]

\* One entry of the record of the calls a process_station makes.
Call(fn, comp, arg, out) == [fn |-> fn, comp |-> comp, arg |-> arg, out |-> out]

\* ------------------------- velocity and displacement: process_station (003)

\* The waveform lengths: empty, the longest the filter rejects, the shortest
\* it accepts.
VdLengths == {0, filtfilt_padlen(HIGHPASS_ORDER), filtfilt_padlen(HIGHPASS_ORDER) + 1}

VdWaveformFiles ==
    {Absent} \cup {File(w) : w \in UNION {WaveformsOfLen(n) : n \in VdLengths}}

VdInit ==
    /\ OnlyStation
    /\ \E w \in VdWaveformFiles, m \in MetadataFiles : station_dir = StationDir(w, m)
    /\ proc = StationStart("velocity")

\* Lines 201-203: without waveform.csv the station is skipped with False.
VdExists ==
    /\ proc.script = "velocity" /\ proc.pc = "exists"
    /\ proc' = IF ~station_dir.waveform_csv.exists THEN StationFail
               ELSE [proc EXCEPT !.pc = "metadata"]
    /\ UNCHANGED <<station_dir, stationFrame>>

\* Lines 206-212: metadata.yml, when there is one, gives the mapping that is
\* later written back and the sampling rate.
VdReadMetadata ==
    /\ proc.script = "velocity" /\ proc.pc = "metadata"
    /\ LET file == station_dir.metadata_yml
       IN proc' = IF ~file.exists THEN [proc EXCEPT !.pc = "read_csv"]
                  ELSE IF ~file.content.parses THEN StationFail
                  ELSE [proc EXCEPT !.pc = "read_csv", !.metadata = file.content.dict,
                                    !.sampling_rate = metadata_sampling_rate(file.content.dict)]
    /\ UNCHANGED <<station_dir, stationFrame>>

\* Lines 215-216: the table of waveform.csv.
VdReadCsv ==
    /\ proc.script = "velocity" /\ proc.pc = "read_csv"
    /\ proc' = [proc EXCEPT !.pc = "component", !.df = station_dir.waveform_csv.content]
    /\ UNCHANGED <<station_dir, stationFrame>>

\* Lines 220-221: the next component's samples.
VdComponent ==
    /\ proc.script = "velocity" /\ proc.pc = "component"
    /\ proc' = [proc EXCEPT !.pc = "baseline", !.acc = column_values(proc.df, COMPONENTS[proc.comp])]
    /\ UNCHANGED <<station_dir, stationFrame>>

\* Line 224: acc = apply_baseline_correction(acc, sampling_rate).
VdBaseline ==
    /\ proc.script = "velocity" /\ proc.pc = "baseline"
    /\ LET out == apply_baseline_correction(proc.acc, proc.sampling_rate, BASELINE_WINDOW_SEC)
           call == Call("apply_baseline_correction", COMPONENTS[proc.comp], proc.acc, out)
       IN proc' = [proc EXCEPT !.pc = "highpass", !.acc = out.value,
                               !.calls = Append(proc.calls, call)]
    /\ UNCHANGED <<station_dir, stationFrame>>

\* Line 225: acc = apply_highpass_filter(acc, sampling_rate); what the filter
\* raises ends the station with False.
VdHighpass ==
    /\ proc.script = "velocity" /\ proc.pc = "highpass"
    /\ LET out == apply_highpass_filter(proc.acc, proc.sampling_rate,
                                        HIGHPASS_FREQ, HIGHPASS_ORDER)
           call == Call("apply_highpass_filter", COMPONENTS[proc.comp], proc.acc, out)
       IN proc' = IF ~out.ok
                  THEN [StationFail EXCEPT !.calls = Append(proc.calls, call)]
                  ELSE [proc EXCEPT !.pc = "integrate", !.acc = out.value,
                                    !.calls = Append(proc.calls, call)]
    /\ UNCHANGED <<station_dir, stationFrame>>

\* Lines 228-230: vel, disp = integrate_fft_padded(acc, sampling_rate) and
\* results[comp]; after UD the loop ends.
VdIntegrate ==
    /\ proc.script = "velocity" /\ proc.pc = "integrate"
    /\ LET out == integrate_fft_padded(proc.acc, proc.sampling_rate, DEFAULT_PAD_FACTOR)
           comp == COMPONENTS[proc.comp]
           call == Call("integrate_fft_padded", comp, proc.acc, out)
       IN proc' = IF ~out.ok
                  THEN [StationFail EXCEPT !.calls = Append(proc.calls, call)]
                  ELSE [proc EXCEPT !.pc = IF proc.comp = Len(COMPONENTS)
                                           THEN "velocity_csv" ELSE "component",
                                    !.comp = IF proc.comp = Len(COMPONENTS)
                                             THEN proc.comp ELSE proc.comp + 1,
                                    !.results = (comp :> out.value) @@ proc.results,
                                    !.calls = Append(proc.calls, call)]
    /\ UNCHANGED <<station_dir, stationFrame>>

\* pd.DataFrame of the datetime column and one output per component:
\* ValueError unless all have the same length.
VdDataFrame(datetimes, results, which) ==
    IF \E c \in {"NS", "EW", "UD"} : results[c][which].n # Len(datetimes)
    THEN Raise("ValueError")
    ELSE Return([datetime |-> datetimes, NS |-> results["NS"][which],
                 EW |-> results["EW"][which], UD |-> results["UD"][which]])

\* velocity.csv and, in the same step, metadata.yml with the integration
\* parameters: the mapping written back before displacement.csv.
VdWriteVelocityAndMetadata ==
    /\ proc.script = "velocity" /\ proc.pc = "velocity_csv"
    /\ LET vel_df == VdDataFrame(proc.df.datetime, proc.results, "velocity")
           metadata == [integration_params |-> [method |-> "FFT with 4x padding"]]
                           @@ proc.metadata
       IN IF ~vel_df.ok
          THEN proc' = StationFail /\ UNCHANGED station_dir
          ELSE /\ proc' = [proc EXCEPT !.pc = "displacement_csv"]
               /\ station_dir' = [station_dir EXCEPT
                                      !.velocity_csv = File(vel_df.value),
                                      !.metadata_yml = File(YamlDoc(metadata))]
    /\ UNCHANGED stationFrame

\* Lines 233-239: velocity.csv.
VdWriteVelocity ==
    /\ proc.script = "velocity" /\ proc.pc = "velocity_csv"
    /\ LET vel_df == VdDataFrame(proc.df.datetime, proc.results, "velocity")
       IN IF ~vel_df.ok
          THEN proc' = StationFail /\ UNCHANGED station_dir
          ELSE /\ proc' = [proc EXCEPT !.pc = "displacement_csv"]
               /\ station_dir' = [station_dir EXCEPT !.velocity_csv = File(vel_df.value)]
    /\ UNCHANGED stationFrame

\* Lines 242-248: displacement.csv.
VdWriteDisplacement ==
    /\ proc.script = "velocity" /\ proc.pc = "displacement_csv"
    /\ LET disp_df == VdDataFrame(proc.df.datetime, proc.results, "displacement")
       IN IF ~disp_df.ok
          THEN proc' = StationFail /\ UNCHANGED station_dir
          ELSE /\ proc' = [proc EXCEPT !.pc = "metadata_yml"]
               /\ station_dir' = [station_dir EXCEPT !.displacement_csv = File(disp_df.value)]
    /\ UNCHANGED stationFrame

\* The peaks taken from what went into the integrator, the conditioned
\* acceleration, instead of what came out of it.
vd_peak_inputs_from_acc(results, which) ==
    <<results["NS"][which].x, results["EW"][which].x, results["UD"][which].x>>

\* Lines 251-256: the series the two peak summaries are computed from.
vd_peak_inputs(results, which) ==
    <<results["NS"][which], results["EW"][which], results["UD"][which]>>

\* Lines 251-285: the peaks of the integrated series and the integration
\* parameters are added to the mapping, which is written back to metadata.yml.
VdWriteMetadata ==
    /\ proc.script = "velocity" /\ proc.pc = "metadata_yml"
    /\ LET vel == vd_peak_inputs(proc.results, "velocity")
           disp == vd_peak_inputs(proc.results, "displacement")
           added == [max_velocity_calculated |-> peak_summary(vel[1], vel[2], vel[3]),
                     max_displacement_calculated |-> peak_summary(disp[1], disp[2], disp[3]),
                     integration_params |->
                         [method |-> "FFT with 4x padding",
                          baseline_window_sec |-> BASELINE_WINDOW_SEC,
                          highpass_cutoff_hz |-> HIGHPASS_FREQ,
                          highpass_order |-> HIGHPASS_ORDER]]
           metadata == added @@ proc.metadata
       IN /\ proc' = [proc EXCEPT !.pc = "return", !.ret = "True", !.metadata = metadata]
          /\ station_dir' = [station_dir EXCEPT !.metadata_yml = File(YamlDoc(metadata))]
    /\ UNCHANGED stationFrame

VdNext ==
    \/ VdExists \/ VdReadMetadata \/ VdReadCsv \/ VdComponent \/ VdBaseline \/ VdHighpass
    \/ VdIntegrate \/ VdWriteVelocity \/ VdWriteDisplacement \/ VdWriteMetadata

SpecVelDisp == VdInit /\ [][VdNext]_vars

\* ------------------------------------------------------------------ C9

\* The stages of one component, in the order of the loop body.
VdStages == <<"apply_baseline_correction", "apply_highpass_filter", "integrate_fft_padded">>

\* The component and the stage the k-th call of a run belongs to.
VdCallComponent(k) == COMPONENTS[((k - 1) \div Len(VdStages)) + 1]

VdCallStage(k) == ((k - 1) % Len(VdStages)) + 1

\* What the integrator returned for the c-th component.
VdIntegrated(c, which) == proc.calls[Len(VdStages) * c].out.value[which]

\* The peak entry of a summary: the rounded result of fn on the given series.
VdPeakOf(entry, fn, arrays) ==
    entry = [fn |-> "round", ndigits |-> 3, x |-> [fn |-> fn, args |-> arrays]]

\* The summary holds the five peaks of the integrator's outputs of one kind.
VdSummaryFromIntegrator(summary, which) ==
    LET x_ns == VdIntegrated(1, which)
        x_ew == VdIntegrated(2, which)
        x_ud == VdIntegrated(3, which)
    IN /\ VdPeakOf(summary.NS, "calc_signed_peak", <<x_ns>>)
       /\ VdPeakOf(summary.EW, "calc_signed_peak", <<x_ew>>)
       /\ VdPeakOf(summary.UD, "calc_signed_peak", <<x_ud>>)
       /\ VdPeakOf(summary.H, "calc_peak_horizontal", <<x_ns, x_ew>>)
       /\ VdPeakOf(summary.total, "calc_peak_total", <<x_ns, x_ew, x_ud>>)

\* The run has written its peaks to metadata.yml.
VdPeaksWritten == proc.script = "velocity" /\ proc.ret = "True"

\* C9: in the velocity/displacement process_station the calls of a run are,
\* component by component in the order NS, EW, UD, baseline correction, then
\* high-pass filter, then FFT integration; the first stage is given the
\* component's column of waveform.csv and every later stage is given exactly
\* what the stage before it returned; and the velocity and displacement peaks
\* written to metadata.yml are the peaks of the integrator's outputs, never of
\* the raw or the conditioned acceleration.
C9_StagesInOrderPeaksFromIntegrator ==
    proc.script = "velocity" =>
        /\ Len(proc.calls) <= Len(VdStages) * Len(COMPONENTS)
        /\ \A k \in 1..Len(proc.calls) :
              LET call == proc.calls[k]
              IN /\ call.fn = VdStages[VdCallStage(k)]
                 /\ call.comp = VdCallComponent(k)
                 /\ IF VdCallStage(k) = 1
                    THEN call.arg = station_dir.waveform_csv.content[call.comp]
                    ELSE call.arg = proc.calls[k - 1].out.value
                 /\ k < Len(proc.calls) => call.out.ok
        /\ VdPeaksWritten =>
              LET metadata == station_dir.metadata_yml.content.dict
              IN /\ Len(proc.calls) = Len(VdStages) * Len(COMPONENTS)
                 /\ VdSummaryFromIntegrator(metadata.max_velocity_calculated, "velocity")
                 /\ VdSummaryFromIntegrator(metadata.max_displacement_calculated,
                                            "displacement")

\* A run on a record with three different columns, long enough for the
\* filter, went through all nine stages and wrote its peaks.
C9_Witness ==
    /\ VdPeaksWritten
    /\ Len(proc.calls) = Len(VdStages) * Len(COMPONENTS)
    /\ station_dir.waveform_csv.content.NS # station_dir.waveform_csv.content.EW
    /\ station_dir.waveform_csv.content.EW # station_dir.waveform_csv.content.UD
    /\ ~RatEq(proc.calls[1].out.value[1], Rat(proc.calls[1].arg[1], 1))
    /\ "max_velocity_calculated" \in DOMAIN station_dir.metadata_yml.content.dict

\* ------------------------------------------- response spectrum: the engine

\* DAMPING_RATIO = 0.05, PERIOD_MIN = 0.02 s, PERIOD_MAX = 10.0 s and
\* PERIOD_NUM = 100.
DAMPING_RATIO == Rat(5, 100)

PERIOD_MIN == Rat(2, 100)

PERIOD_MAX == Rat(10, 1)

PERIOD_NUM == 100

\* np.linspace without its end point (mutation of linspace_share).
linspace_share_open(num, i) == Rat(i - 1, num)

\* np.linspace(start, stop, num): point i lies at the share (i-1)/(num-1) of
\* the way from start to stop, and a single point at start.
linspace_share(num, i) == IF num = 1 THEN Rat(0, 1) ELSE Rat(i - 1, num - 1)

\* np.logspace(np.log10(start), np.log10(stop), num), in real numbers:
\* 10 ** linspace(log10(start), log10(stop), num).  The point at the share w
\* is start^(1-w) * stop^w, irrational between the ends; it is kept as the
\* two ends and the share.
logspace_periods(start, stop, num) ==
    [i \in 1..num |-> [lo |-> start, hi |-> stop, w |-> linspace_share(num, i)]]

\* Line 91 for a point of the grid: period == 0.
period_is_zero(period) ==
    \/ period.lo.num = 0 /\ RatLt(period.w, Rat(1, 1))
    \/ period.hi.num = 0 /\ RatLt(Rat(0, 1), period.w)

\* Line 161 on the process_station path: one of the three values
\* calculate_response_fft returns for a period of the grid.  The responses
\* are maxima of oscillator responses at irrational periods and are kept as
\* the application to its arguments, with the branch the call takes.
response_term(out, acc, dt, period, h) ==
    [fn |-> "calculate_response_fft", out |-> out,
     branch |-> IF period_is_zero(period) THEN "static" ELSE "fft",
     acc |-> acc, dt |-> dt, period |-> period, h |-> h]

\* Lines 156-176 on the process_station path: one entry per period, in the
\* order of the grid, in each of SD, SV, SA and pSV; pSV is
\* (2 pi / T) * SD where the period is positive and 0.0 elsewhere.  An empty
\* record fails in the first calculate_response_fft: np.max of nothing
\* raises ValueError for a period 0, and otherwise log2(0) is -inf and int()
\* of it raises OverflowError.
calculate_response_spectrum(acc, dt, periods, h) ==
    LET arr(which) == [i \in 1..Len(periods) |-> response_term(which, acc, dt, periods[i], h)]
    IN IF Len(periods) >= 1 /\ Len(acc) = 0
       THEN Raise(IF period_is_zero(periods[1]) THEN "ValueError" ELSE "OverflowError")
       ELSE Return([SD |-> arr("SD"), SV |-> arr("SV"), SA |-> arr("SA"),
                    pSV |-> [i \in 1..Len(periods) |->
                                IF period_is_zero(periods[i])
                                THEN [fn |-> "zero"]
                                ELSE [fn |-> "pseudo_velocity", period |-> periods[i],
                                      sd |-> arr("SD")[i]]]])

\* np.sqrt(a**2 + b**2) of two arrays of one length, place by place.
srss(a, b) == [i \in 1..Len(a) |-> [fn |-> "srss", a |-> a[i], b |-> b[i]]]

\* Lines 229-234 combining NS with UD (mutation of rs_horizontal).
rs_horizontal_with_ud(results, metric) == srss(results["NS"][metric], results["UD"][metric])

\* Lines 229-234 for one metric: np.sqrt(results['NS'][m]**2 + results['EW'][m]**2).
rs_horizontal(results, metric) == srss(results["NS"][metric], results["EW"][metric])

\* Lines 239-242 taking the pseudo-velocity (mutation of rs_output_column).
rs_output_column_psv(results, comp) == results[comp].pSV

\* Lines 239-242: the column of a component or of H in the output table is
\* its SV array.
rs_output_column(results, comp) == results[comp].SV

\* --------------------------------- Fourier spectrum: process_station (002)

\* The waveform lengths of the spectrum runs: empty, one sample, four.
SpectraLengths == {0, 1, 4}

SpectraWaveformFiles ==
    {Absent} \cup {File(w) : w \in UNION {WaveformsOfLen(n) : n \in SpectraLengths}}

\* What to_csv(float_format='%.6e') writes: the table, every number printed
\* with six decimals of mantissa.
FormattedCsv(table) == [float_format |-> "%.6e", table |-> table]

\* Lines 93-95: without waveform.csv the station is skipped with False.
FsExists ==
    /\ proc.script = "fourier" /\ proc.pc = "exists"
    /\ proc' = IF ~station_dir.waveform_csv.exists THEN StationFail
               ELSE [proc EXCEPT !.pc = "metadata"]
    /\ UNCHANGED <<station_dir, stationFrame>>

\* Lines 99-103: the sampling rate of metadata.yml, when there is one.
FsReadMetadata ==
    /\ proc.script = "fourier" /\ proc.pc = "metadata"
    /\ LET file == station_dir.metadata_yml
       IN proc' = IF ~file.exists THEN [proc EXCEPT !.pc = "read_csv"]
                  ELSE IF ~file.content.parses THEN StationFail
                  ELSE [proc EXCEPT !.pc = "read_csv",
                                    !.sampling_rate = metadata_sampling_rate(file.content.dict)]
    /\ UNCHANGED <<station_dir, stationFrame>>

\* Line 106: the table of waveform.csv.
FsReadCsv ==
    /\ proc.script = "fourier" /\ proc.pc = "read_csv"
    /\ proc' = [proc EXCEPT !.pc = "spectrum", !.df = station_dir.waveform_csv.content]
    /\ UNCHANGED <<station_dir, stationFrame>>

\* Lines 109-111, one line at a time:
\* calculate_fourier_spectrum(df[comp].values, sampling_rate) for NS, EW, UD.
FsSpectrum ==
    /\ proc.script = "fourier" /\ proc.pc = "spectrum"
    /\ LET comp == COMPONENTS[proc.comp]
           acc == column_values(proc.df, comp)
           out == calculate_fourier_spectrum(acc, proc.sampling_rate)
           call == Call("calculate_fourier_spectrum", comp, acc, out)
       IN proc' = IF ~out.ok
                  THEN [StationFail EXCEPT !.calls = Append(proc.calls, call)]
                  ELSE [proc EXCEPT !.pc = IF proc.comp = Len(COMPONENTS)
                                           THEN "write" ELSE "spectrum",
                                    !.comp = IF proc.comp = Len(COMPONENTS)
                                             THEN proc.comp ELSE proc.comp + 1,
                                    !.results = (comp :> out.value) @@ proc.results,
                                    !.calls = Append(proc.calls, call)]
    /\ UNCHANGED <<station_dir, stationFrame>>

\* Lines 114-124: fourier_spectrum.csv from the frequency grid of the NS call
\* and the three amplitude columns.
FsWrite ==
    /\ proc.script = "fourier" /\ proc.pc = "write"
    /\ LET freq == proc.results["NS"].freq
           out_df == [frequency |-> freq, NS |-> proc.results["NS"].amplitude,
                      EW |-> proc.results["EW"].amplitude,
                      UD |-> proc.results["UD"].amplitude]
       IN IF \E c \in {"NS", "EW", "UD"} : Len(out_df[c]) # Len(freq)
          THEN proc' = StationFail /\ UNCHANGED station_dir
          ELSE /\ proc' = [proc EXCEPT !.pc = "return", !.ret = "True"]
               /\ station_dir' = [station_dir EXCEPT
                                      !.fourier_spectrum_csv = File(FormattedCsv(out_df))]
    /\ UNCHANGED stationFrame

\* -------------------------------- response spectrum: process_station (004)

\* Lines 201-203: without waveform.csv the station is skipped with False.
RsExists ==
    /\ proc.script = "response" /\ proc.pc = "exists"
    /\ proc' = IF ~station_dir.waveform_csv.exists THEN StationFail
               ELSE [proc EXCEPT !.pc = "metadata"]
    /\ UNCHANGED <<station_dir, stationFrame>>

\* Lines 207-211: the sampling rate of metadata.yml, when there is one.
RsReadMetadata ==
    /\ proc.script = "response" /\ proc.pc = "metadata"
    /\ LET file == station_dir.metadata_yml
       IN proc' = IF ~file.exists THEN [proc EXCEPT !.pc = "interval"]
                  ELSE IF ~file.content.parses THEN StationFail
                  ELSE [proc EXCEPT !.pc = "interval",
                                    !.sampling_rate = metadata_sampling_rate(file.content.dict)]
    /\ UNCHANGED <<station_dir, stationFrame>>

\* Line 213: dt = 1.0 / sampling_rate; a zero rate raises ZeroDivisionError.
RsInterval ==
    /\ proc.script = "response" /\ proc.pc = "interval"
    /\ proc' = IF proc.sampling_rate = 0 THEN StationFail
               ELSE [proc EXCEPT !.pc = "read_csv", !.dt = Rat(1, proc.sampling_rate)]
    /\ UNCHANGED <<station_dir, stationFrame>>

\* Lines 216-219: the table of waveform.csv and the period grid.
RsReadCsv ==
    /\ proc.script = "response" /\ proc.pc = "read_csv"
    /\ proc' = [proc EXCEPT !.pc = "spectrum", !.df = station_dir.waveform_csv.content,
                            !.periods = logspace_periods(PERIOD_MIN, PERIOD_MAX, PERIOD_NUM)]
    /\ UNCHANGED <<station_dir, stationFrame>>

\* Lines 223-226: acc = df[comp].values and
\* results[comp] = calculate_response_spectrum(acc, dt, periods, DAMPING_RATIO).
RsSpectrum ==
    /\ proc.script = "response" /\ proc.pc = "spectrum"
    /\ LET comp == COMPONENTS[proc.comp]
           acc == column_values(proc.df, comp)
           out == calculate_response_spectrum(acc, proc.dt, proc.periods, DAMPING_RATIO)
           call == Call("calculate_response_spectrum", comp, acc, out)
       IN proc' = IF ~out.ok
                  THEN [StationFail EXCEPT !.calls = Append(proc.calls, call)]
                  ELSE [proc EXCEPT !.pc = IF proc.comp = Len(COMPONENTS)
                                           THEN "horizontal" ELSE "spectrum",
                                    !.comp = IF proc.comp = Len(COMPONENTS)
                                             THEN proc.comp ELSE proc.comp + 1,
                                    !.acc = acc,
                                    !.results = (comp :> out.value) @@ proc.results,
                                    !.calls = Append(proc.calls, call)]
    /\ UNCHANGED <<station_dir, stationFrame>>

\* Lines 229-234: results['H'], the SRSS of NS and EW for each of SD, SV, SA
\* and pSV.
RsHorizontal ==
    /\ proc.script = "response" /\ proc.pc = "horizontal"
    /\ proc' = [proc EXCEPT !.pc = "write",
                    !.results = ("H" :> [SD |-> rs_horizontal(proc.results, "SD"),
                                         SV |-> rs_horizontal(proc.results, "SV"),
                                         SA |-> rs_horizontal(proc.results, "SA"),
                                         pSV |-> rs_horizontal(proc.results, "pSV")])
                                 @@ proc.results]
    /\ UNCHANGED <<station_dir, stationFrame>>

\* Lines 237-248: the table of the period grid and the SV columns, with its
\* columns in the order of the dict, written as response_spectrum.csv; pandas
\* raises ValueError for columns of different lengths.
RsWrite ==
    /\ proc.script = "response" /\ proc.pc = "write"
    /\ LET out_df == [columns |-> <<"period", "NS", "EW", "UD", "H">>,
                      period |-> proc.periods,
                      NS |-> rs_output_column(proc.results, "NS"),
                      EW |-> rs_output_column(proc.results, "EW"),
                      UD |-> rs_output_column(proc.results, "UD"),
                      H |-> rs_output_column(proc.results, "H")]
       IN IF \E c \in {"NS", "EW", "UD", "H"} : Len(out_df[c]) # Len(proc.periods)
          THEN proc' = StationFail /\ UNCHANGED station_dir
          ELSE /\ proc' = [proc EXCEPT !.pc = "return", !.ret = "True"]
               /\ station_dir' = [station_dir EXCEPT
                                      !.response_spectrum_csv = File(FormattedCsv(out_df))]
    /\ UNCHANGED stationFrame

\* ------------------------------------------ the two spectrum scripts' runs

SpectraInit ==
    /\ OnlyStation
    /\ \E w \in SpectraWaveformFiles, m \in MetadataFiles : station_dir = StationDir(w, m)
    /\ \E script \in {"fourier", "response"} : proc = StationStart(script)

SpectraNext ==
    \/ FsExists \/ FsReadMetadata \/ FsReadCsv \/ FsSpectrum \/ FsWrite
    \/ RsExists \/ RsReadMetadata \/ RsInterval \/ RsReadCsv \/ RsSpectrum
    \/ RsHorizontal \/ RsWrite

SpecSpectra == SpectraInit /\ [][SpectraNext]_vars

\* ------------------------------------------------------------------ C10

\* The spectrum function each of the two scripts calls.
SpectrumFunction ==
    IF proc.script = "fourier" THEN "calculate_fourier_spectrum"
    ELSE "calculate_response_spectrum"

\* The samples of a component as they stand in waveform.csv.
RawSamples(comp) == station_dir.waveform_csv.content[comp]

\* A spectrum run has written its output file.
SpectraWritten == proc.script \in {"fourier", "response"} /\ proc.ret = "True"

\* C10: the Fourier-spectrum and response-spectrum process_station make no
\* call but one spectrum call per component, in the order NS, EW, UD, and each
\* call is given the component's samples exactly as they stand in
\* waveform.csv; the file a run writes holds the spectra of those raw samples
\* (the Fourier amplitudes of the raw column at the metadata's sampling rate,
\* the response spectra of the raw column).
C10_RawSamplesToSpectra ==
    proc.script \in {"fourier", "response"} =>
        /\ Len(proc.calls) <= Len(COMPONENTS)
        /\ \A k \in 1..Len(proc.calls) :
              /\ proc.calls[k].fn = SpectrumFunction
              /\ proc.calls[k].comp = COMPONENTS[k]
              /\ proc.calls[k].arg = RawSamples(COMPONENTS[k])
        /\ SpectraWritten =>
              /\ Len(proc.calls) = Len(COMPONENTS)
              /\ \A c \in {"NS", "EW", "UD"} :
                    IF proc.script = "fourier"
                    THEN station_dir.fourier_spectrum_csv.content.table[c]
                             = calculate_fourier_spectrum(RawSamples(c),
                                                          proc.sampling_rate).value.amplitude
                    ELSE \A i \in 1..Len(proc.periods) :
                             station_dir.response_spectrum_csv.content.table[c][i].acc
                                 = RawSamples(c)

\* A Fourier run on a four-sample record whose columns differ and do not
\* start at zero made its three calls and wrote fourier_spectrum.csv.
C10_Witness ==
    /\ SpectraWritten
    /\ proc.script = "fourier"
    /\ Len(proc.calls) = Len(COMPONENTS)
    /\ Len(RawSamples("NS")) = 4
    /\ RawSamples("NS") # RawSamples("EW")
    /\ RawSamples("EW") # RawSamples("UD")
    /\ \A c \in {"NS", "EW", "UD"} : RawSamples(c)[1] # 0
    /\ station_dir.fourier_spectrum_csv.exists

\* A response-spectrum run on a record whose columns do not start at zero
\* made its three calls and wrote response_spectrum.csv.
ResponseRunWritten ==
    /\ SpectraWritten
    /\ proc.script = "response"
    /\ Len(proc.calls) = Len(COMPONENTS)
    /\ \A c \in {"NS", "EW", "UD"} : RawSamples(c)[1] # 0
    /\ station_dir.response_spectrum_csv.exists

\* ------------------------------------------- exact numbers for the transforms

\* The transforms of integrate_fft_padded and calculate_response_fft are
\* computed exactly for the lengths 1, 2, 3, 4, 6, 8 and 12, whose roots of
\* unity have coordinates in Q(sqrt 2) (length 8) or Q(sqrt 3) (the others).
\* A number is
\*     ((ra + rb * sqrt d) + i * (ia + ib * sqrt d)) / den * (2 pi)^tau
\* with integer ra, rb, ia, ib, den > 0 in lowest terms, d the square-free
\* root of the transform length in use, and tau the power of 2 pi that the
\* angular frequencies bring in.  Zero has tau 0.  nan, the result of a
\* division by zero, has den 0.
ExactLengths == {1, 2, 3, 4, 6, 8, 12}

FieldD(n) == IF n = 8 THEN 2 ELSE 3

Num(ra, rb, ia, ib, den, tau) ==
    [ra |-> ra, rb |-> rb, ia |-> ia, ib |-> ib, den |-> den, tau |-> tau]

NumZero == Num(0, 0, 0, 0, 1, 0)

NumNaN == Num(0, 0, 0, 0, 0, 0)

\* A sum of non-zero terms carrying different powers of 2 pi: not a number of
\* this representation.  The code never forms one.
NumMixed == Num(0, 0, 0, 0, -1, 0)

NumIsNumber(x) == x.den > 0

NumIsZero(x) == x.den > 0 /\ x.ra = 0 /\ x.rb = 0 /\ x.ia = 0 /\ x.ib = 0

RECURSIVE GCD(_, _)
GCD(a, b) == IF b = 0 THEN a ELSE GCD(b, a % b)

\* Lowest terms, positive denominator, tau 0 for zero.
NumNorm(x) ==
    IF x.den = 0 THEN NumNaN
    ELSE IF x.ra = 0 /\ x.rb = 0 /\ x.ia = 0 /\ x.ib = 0 THEN NumZero
    ELSE LET g == GCD(GCD(GCD(Abs(x.ra), Abs(x.rb)), GCD(Abs(x.ia), Abs(x.ib))), Abs(x.den))
             s == IF x.den < 0 THEN -g ELSE g
         IN Num(x.ra \div s, x.rb \div s, x.ia \div s, x.ib \div s, x.den \div s, x.tau)

\* The float of a sample or of any integer, and of a fraction.
NumInt(k) == NumNorm(Num(k, 0, 0, 0, 1, 0))

NumRat(q) == NumNorm(Num(q.num, 0, 0, 0, q.den, 0))

\* 1j.
NumI == Num(0, 0, 1, 0, 1, 0)

\* 2 * np.pi.
NumTwoPi == Num(1, 0, 0, 0, 1, 1)

NumBad(x, y) == IF x.den = 0 \/ y.den = 0 THEN NumNaN ELSE NumMixed

NumNeg(x) == IF ~NumIsNumber(x) THEN x ELSE NumNorm(Num(-x.ra, -x.rb, -x.ia, -x.ib, x.den, x.tau))

NumAdd(x, y) ==
    IF ~NumIsNumber(x) \/ ~NumIsNumber(y) THEN NumBad(x, y)
    ELSE IF NumIsZero(x) THEN y
    ELSE IF NumIsZero(y) THEN x
    ELSE IF x.tau # y.tau THEN NumMixed
    ELSE LET g == GCD(x.den, y.den)
             fx == y.den \div g
             fy == x.den \div g
         IN NumNorm(Num(x.ra * fx + y.ra * fy, x.rb * fx + y.rb * fy,
                        x.ia * fx + y.ia * fy, x.ib * fx + y.ib * fy,
                        x.den * fx, x.tau))

NumSub(x, y) == NumAdd(x, NumNeg(y))

\* x * y in the field with root d.
NumMul(x, y, d) ==
    IF ~NumIsNumber(x) \/ ~NumIsNumber(y) THEN NumBad(x, y)
    ELSE NumNorm(Num(
        (x.ra * y.ra + d * x.rb * y.rb) - (x.ia * y.ia + d * x.ib * y.ib),
        (x.ra * y.rb + x.rb * y.ra) - (x.ia * y.ib + x.ib * y.ia),
        (x.ra * y.ia + d * x.rb * y.ib) + (x.ia * y.ra + d * x.ib * y.rb),
        (x.ra * y.ib + x.rb * y.ia) + (x.ia * y.rb + x.ib * y.ra),
        x.den * y.den, x.tau + y.tau))

\* 1 / y for a y without a root part (every divisor of the code is one):
\* conj(y) / |y|^2.  For y = 0 numpy's array division gives inf or nan parts
\* without raising, and every product and sum the code forms from a complex
\* quotient turns them into nan: the quotient is kept as nan.
NumInv(y) ==
    IF ~NumIsNumber(y) THEN y
    ELSE IF NumIsZero(y) THEN NumNaN
    ELSE NumNorm(Num(y.ra * y.den, 0, -(y.ia * y.den), 0, y.ra * y.ra + y.ia * y.ia, -y.tau))

NumDiv(x, y, d) == NumMul(x, NumInv(y), d)

\* The real part, as irfft and np.abs of a real series take it.
NumRe(x) == IF ~NumIsNumber(x) THEN x ELSE NumNorm(Num(x.ra, x.rb, 0, 0, x.den, x.tau))

\* The sign of the real number a + b * sqrt d.
SurdSign(a, b, d) ==
    IF a >= 0 /\ b >= 0 THEN (IF a = 0 /\ b = 0 THEN 0 ELSE 1)
    ELSE IF a <= 0 /\ b <= 0 THEN -1
    ELSE IF a > 0 THEN (IF a * a > d * b * b THEN 1 ELSE IF a * a = d * b * b THEN 0 ELSE -1)
    ELSE (IF d * b * b > a * a THEN 1 ELSE IF a * a = d * b * b THEN 0 ELSE -1)

NumSign(x, d) == SurdSign(x.ra, x.rb, d)

\* np.abs of a real number.
NumAbs(x, d) == IF NumSign(x, d) < 0 THEN NumNeg(x) ELSE x

\* x < y for real numbers of one power of 2 pi.
NumLess(x, y, d) == NumSign(NumSub(y, x), d) > 0

\* Twice the cosines of the multiples of 30 degrees, as <<a, b>> for
\* a + b * sqrt 3, and of the multiples of 45 degrees, for a + b * sqrt 2.
Cos12Table ==
    << <<2, 0>>, <<0, 1>>, <<1, 0>>, <<0, 0>>, <<-1, 0>>, <<0, -1>>,
       <<-2, 0>>, <<0, -1>>, <<-1, 0>>, <<0, 0>>, <<1, 0>>, <<0, 1>> >>

Cos8Table ==
    << <<2, 0>>, <<0, 1>>, <<0, 0>>, <<0, -1>>, <<-2, 0>>, <<0, -1>>, <<0, 0>>, <<0, 1>> >>

\* exp(2 pi i m / n) for a length n of ExactLengths and any integer m.
Cis(n, m) ==
    LET turn == IF n = 8 THEN 8 ELSE 12
        table == IF n = 8 THEN Cos8Table ELSE Cos12Table
        idx == ((m % n) * (turn \div n)) % turn
        c == table[idx + 1]
        s == table[((idx + turn - (turn \div 4)) % turn) + 1]
    IN NumNorm(Num(c[1], c[2], s[1], s[2], 2, 0))

\* Sum over j = i..m of x[j] * exp(-2 pi i (j-1) k / n).
RECURSIVE ForwardSum(_, _, _, _, _)
ForwardSum(x, n, k, i, m) ==
    IF i > m THEN NumZero
    ELSE NumAdd(NumMul(x[i], Cis(n, -((i - 1) * k)), FieldD(n)),
                ForwardSum(x, n, k, i + 1, m))

\* np.fft.rfft(x, n): the series is cut or zero-padded to n samples and the
\* bins 0..n//2 of its DFT are returned; ValueError for n < 1.
rfft_n(x, n) ==
    IF n < 1 THEN Raise("ValueError")
    ELSE Return([b \in 1..(n \div 2 + 1) |-> ForwardSum(x, n, b - 1, 1, Min2(Len(x), n))])

\* Sum over k = i..m of 2 * Re(X[k] * exp(2 pi i j k / n)), the bins that
\* stand for a conjugate pair.
RECURSIVE InverseSum(_, _, _, _, _)
InverseSum(bins, n, j, i, m) ==
    IF i > m THEN NumZero
    ELSE NumAdd(NumMul(NumInt(2), NumRe(NumMul(bins[i + 1], Cis(n, j * i), FieldD(n))),
                       FieldD(n)),
                InverseSum(bins, n, j, i + 1, m))

\* np.fft.irfft(bins, n) for n // 2 + 1 bins: the real series of n samples
\* whose DFT has these bins; the imaginary parts of the DC bin and, for even
\* n, of the Nyquist bin are ignored.
irfft(bins, n) ==
    [s \in 1..n |->
        LET j == s - 1
            dc == NumRe(bins[1])
            pairs == InverseSum(bins, n, j, 1, (n - 1) \div 2)
            nyquist == IF n % 2 = 0 /\ n >= 2
                       THEN NumRe(NumMul(bins[n \div 2 + 1], Cis(n, j * (n \div 2)), FieldD(n)))
                       ELSE NumZero
        IN NumMul(NumAdd(NumAdd(dc, pairs), nyquist), NumRat(Rat(1, n)), FieldD(n))]

\* np.mean of a non-empty series of numbers.
RECURSIVE NumSum(_, _)
NumSum(x, m) == IF m = 0 THEN NumZero ELSE NumAdd(x[m], NumSum(x, m - 1))

NumMean(x) == IF Len(x) = 0 THEN NumNaN
              ELSE NumMul(NumSum(x, Len(x)), NumRat(Rat(1, Len(x))), 3)

\* irfft(rfft(x)) gives x back: the transforms of the model invert each other.
RoundTripExact(x) ==
    irfft(rfft_n([i \in 1..Len(x) |-> NumInt(x[i])], Len(x)).value, Len(x))
        = [i \in 1..Len(x) |-> NumInt(x[i])]

\* ------------------------------------------- integrate_fft_padded, exactly

\* Acceleration samples of the integrator runs, a few units each, so that the
\* exact spectra stay within the integers of the checker.
IfpSamples == {-1, 0, 2}

IfpRates == {1, 2}

\* The record lengths and, for each, the pad factors whose padded length is
\* one of ExactLengths; 4 is the default of the code.
IfpPadFactors(n) ==
    CASE n = 0 -> {4}
      [] n = 1 -> {1, 2, 3, 4}
      [] n = 2 -> {1, 2, 3, 4}
      [] n = 3 -> {1, 2, 4}
      [] n = 4 -> {1, 2, 3}

IfpInputs ==
    UNION {[data : [1..n -> IfpSamples], sampling_rate : IfpRates,
            pad_factor : IfpPadFactors(n)] : n \in 0..4}

\* The locals of integrate_fft_padded before anything is assigned.
IfpStart(args) ==
    [pc |-> "pad", data |-> args.data, sampling_rate |-> args.sampling_rate,
     pad_factor |-> args.pad_factor, n_original |-> 0, n_padded |-> 0,
     dt |-> Unassigned, data_padded |-> <<>>, fft_acc |-> <<>>, freq |-> <<>>,
     omega |-> <<>>, fft_vel |-> <<>>, fft_disp |-> <<>>,
     velocity_padded |-> <<>>, displacement_padded |-> <<>>,
     velocity |-> <<>>, displacement |-> <<>>, ret |-> NoResult]

IfpInit ==
    /\ OnlyIfp
    /\ \E args \in IfpInputs : ifp = IfpStart(args)

\* np.zeros(n_padded) with the data written to its first len(data) places.
ifp_pad(data, n_padded) ==
    [i \in 1..n_padded |-> IF i <= Len(data) THEN NumInt(data[i]) ELSE NumZero]

\* The angular frequencies with the DC entry left at zero (mutation of
\* ifp_omega_dc).
ifp_omega_dc_kept(omega) == omega

\* omega[0] = 1.0.
ifp_omega_dc(omega) == [omega EXCEPT ![1] = NumInt(1)]

\* bins / (1j * omega), bin by bin.
ifp_divide(bins, omega) ==
    [b \in 1..Len(bins) |-> NumDiv(bins[b], NumMul(NumI, omega[b], 3), 3)]

\* bins[0] = 0.
ifp_zero_dc(bins) == [bins EXCEPT ![1] = NumZero]

\* The last n_original samples of the padded series (mutation of ifp_trim).
ifp_trim_tail(padded, n_original) ==
    SubSeq(padded, Len(padded) - n_original + 1, Len(padded))

\* padded[:n_original].
ifp_trim(padded, n_original) == PySlice(padded, n_original)

\* The mean of the padded series (mutation of ifp_drift).
ifp_drift_padded(series, padded) == NumMean(padded)

\* np.mean(series) of the truncated series; the padded series it was cut
\* from plays no part.
ifp_drift(series, padded) == NumMean(series)

\* series - mean.
ifp_subtract(series, mean) == [i \in 1..Len(series) |-> NumSub(series[i], mean)]

\* Lines 119-125: the lengths, dt and the zero-padded copy; a zero sampling
\* rate raises ZeroDivisionError.
IfpPad ==
    /\ ifp.pc = "pad"
    /\ LET n_original == Len(ifp.data)
           n_padded == ifp.pad_factor * n_original
       IN ifp' = IF ifp.sampling_rate = 0
                 THEN [ifp EXCEPT !.pc = "return", !.ret = Raise("ZeroDivisionError")]
                 ELSE [ifp EXCEPT !.pc = "fft", !.n_original = n_original,
                                  !.n_padded = n_padded,
                                  !.dt = Rat(1, ifp.sampling_rate),
                                  !.data_padded = ifp_pad(ifp.data, n_padded)]
    /\ UNCHANGED ifpFrame

\* Lines 128-129: the spectrum of the padded series and its frequencies; rfft
\* raises ValueError for an empty series.
IfpTransform ==
    /\ ifp.pc = "fft"
    /\ LET fft_acc == rfft_n(ifp.data_padded, Len(ifp.data_padded))
       IN ifp' = IF ~fft_acc.ok THEN [ifp EXCEPT !.pc = "return", !.ret = fft_acc]
                 ELSE [ifp EXCEPT !.pc = "omega", !.fft_acc = fft_acc.value,
                                  !.freq = rfftfreq(ifp.n_padded, ifp.dt)]
    /\ UNCHANGED ifpFrame

\* Lines 132-133: omega = 2 * np.pi * freq, then omega[0] = 1.0.
IfpOmega ==
    /\ ifp.pc = "omega"
    /\ LET omega == [b \in 1..Len(ifp.freq) |-> NumMul(NumTwoPi, NumRat(ifp.freq[b]), 3)]
       IN ifp' = [ifp EXCEPT !.pc = "divide", !.omega = ifp_omega_dc(omega)]
    /\ UNCHANGED ifpFrame

\* Lines 138-139: fft_vel = fft_acc / (1j * omega) and
\* fft_disp = fft_vel / (1j * omega).
IfpDivide ==
    /\ ifp.pc = "divide"
    /\ LET fft_vel == ifp_divide(ifp.fft_acc, ifp.omega)
       IN ifp' = [ifp EXCEPT !.pc = "zero_dc", !.fft_vel = fft_vel,
                             !.fft_disp = ifp_divide(fft_vel, ifp.omega)]
    /\ UNCHANGED ifpFrame

\* Lines 142-143: fft_vel[0] = 0 and fft_disp[0] = 0.
IfpZeroDc ==
    /\ ifp.pc = "zero_dc"
    /\ ifp' = [ifp EXCEPT !.pc = "inverse", !.fft_vel = ifp_zero_dc(ifp.fft_vel),
                          !.fft_disp = ifp_zero_dc(ifp.fft_disp)]
    /\ UNCHANGED ifpFrame

\* Lines 146-147: the inverse transforms, n_padded samples each.
IfpInverse ==
    /\ ifp.pc = "inverse"
    /\ ifp' = [ifp EXCEPT !.pc = "trim",
                          !.velocity_padded = irfft(ifp.fft_vel, ifp.n_padded),
                          !.displacement_padded = irfft(ifp.fft_disp, ifp.n_padded)]
    /\ UNCHANGED ifpFrame

\* Lines 150-151: both series cut back to the original length.
IfpTrim ==
    /\ ifp.pc = "trim"
    /\ ifp' = [ifp EXCEPT !.pc = "demean",
                          !.velocity = ifp_trim(ifp.velocity_padded, ifp.n_original),
                          !.displacement = ifp_trim(ifp.displacement_padded, ifp.n_original)]
    /\ UNCHANGED ifpFrame

\* Lines 154-157: the mean of each series is removed and the pair returned.
IfpDemean ==
    /\ ifp.pc = "demean"
    /\ LET velocity == ifp_subtract(ifp.velocity,
                                    ifp_drift(ifp.velocity, ifp.velocity_padded))
           displacement == ifp_subtract(ifp.displacement,
                                        ifp_drift(ifp.displacement, ifp.displacement_padded))
       IN ifp' = [ifp EXCEPT !.pc = "return", !.velocity = velocity,
                             !.displacement = displacement,
                             !.ret = Return([velocity |-> velocity,
                                             displacement |-> displacement])]
    /\ UNCHANGED ifpFrame

IfpNext ==
    \/ IfpPad \/ IfpTransform \/ IfpOmega \/ IfpDivide \/ IfpZeroDc \/ IfpInverse
    \/ IfpTrim \/ IfpDemean

SpecIntegrate == IfpInit /\ [][IfpNext]_vars

\* ------------------------------------------------------- C11, C12, C13

\* The call got as far as its inverse transforms and their truncation.
IfpTrimmed == ifp.pc = "demean"

\* The call returned its two series.
IfpReturned == ifp.pc = "return" /\ ifp.ret.ok

\* C11: integrate_fft_padded zero-pads the n samples to pad_factor * n (the
\* input in the first n places, zeros after), and its velocity and its
\* displacement have exactly n samples each, taken from the places 0..n-1 of
\* the padded inverse transforms (the returned series are those samples less
\* one constant), for n >= 1 and pad_factor >= 1.
C11_PaddedThenTruncated ==
    LET n == Len(ifp.data)
        first(padded) == [i \in 1..n |-> padded[i]]
        shifted(series, padded) ==
            \A i \in 1..n : NumSub(series[i], series[1]) = NumSub(padded[i], padded[1])
    IN (ifp.pc \notin {"idle", "pad"} /\ n >= 1) =>
        /\ ifp.pc # "return" \/ ifp.ret.ok
        /\ Len(ifp.data_padded) = ifp.pad_factor * n
        /\ \A i \in 1..Len(ifp.data_padded) :
              ifp.data_padded[i] = IF i <= n THEN NumInt(ifp.data[i]) ELSE NumZero
        /\ ifp.pc \in {"trim", "demean", "return"} =>
              /\ Len(ifp.velocity_padded) = ifp.pad_factor * n
              /\ Len(ifp.displacement_padded) = ifp.pad_factor * n
        /\ IfpTrimmed =>
              /\ ifp.velocity = first(ifp.velocity_padded)
              /\ ifp.displacement = first(ifp.displacement_padded)
        /\ IfpReturned =>
              /\ Len(ifp.ret.value.velocity) = n
              /\ Len(ifp.ret.value.displacement) = n
              /\ shifted(ifp.ret.value.velocity, ifp.velocity_padded)
              /\ shifted(ifp.ret.value.displacement, ifp.displacement_padded)

\* A three-sample record padded four times was integrated; the padded
\* velocity is not zero after the record's end and its end differs from its
\* start.
C11_Witness ==
    /\ IfpReturned
    /\ Len(ifp.data) = 3 /\ ifp.pad_factor = 4
    /\ \E i \in 4..12 : ~NumIsZero(ifp.velocity_padded[i])
    /\ ifp_trim_tail(ifp.velocity_padded, 3) # ifp_trim(ifp.velocity_padded, 3)

\* 2 pi times the frequency of bin k of the padded transform.
IfpBinOmega(k) == NumMul(NumTwoPi, NumRat(Rat(k * ifp.sampling_rate, ifp.n_padded)), 3)

\* C12: in integrate_fft_padded the DC angular frequency is 1.0 before any
\* division and no angular frequency is zero, so no quotient is nan; the DC
\* bins of the velocity and of the displacement spectrum are zero before the
\* inverse transforms whatever the DC bin of the input; and for every bin
\* k >= 1, V_k * (i w_k) = A_k and D_k * w_k^2 = -A_k.
C12_NoZeroDivisionDcZero ==
    LET d == FieldD(ifp.n_padded)
    IN /\ ifp.pc \in {"divide", "zero_dc", "inverse", "trim", "demean"} =>
             /\ ifp.omega[1] = NumInt(1)
             /\ \A b \in 1..Len(ifp.omega) : ~NumIsZero(ifp.omega[b])
             /\ \A b \in 2..Len(ifp.omega) : ifp.omega[b] = IfpBinOmega(b - 1)
       /\ ifp.pc \in {"zero_dc", "inverse", "trim", "demean"} =>
             /\ Len(ifp.fft_vel) = Len(ifp.fft_acc) /\ Len(ifp.fft_disp) = Len(ifp.fft_acc)
             /\ \A b \in 1..Len(ifp.fft_acc) :
                   NumIsNumber(ifp.fft_vel[b]) /\ NumIsNumber(ifp.fft_disp[b])
             /\ \A b \in 2..Len(ifp.fft_acc) :
                   LET w == IfpBinOmega(b - 1)
                   IN /\ NumMul(ifp.fft_vel[b], NumMul(NumI, w, d), d) = ifp.fft_acc[b]
                      /\ NumMul(ifp.fft_disp[b], NumMul(w, w, d), d) = NumNeg(ifp.fft_acc[b])
       /\ ifp.pc \in {"inverse", "trim", "demean"} =>
             /\ NumIsZero(ifp.fft_vel[1])
             /\ NumIsZero(ifp.fft_disp[1])

\* The spectra of a record with a non-zero DC bin and a non-zero bin above
\* it were divided and their DC bins cleared.
C12_Witness ==
    /\ ifp.pc = "inverse"
    /\ ~NumIsZero(ifp.fft_acc[1])
    /\ Len(ifp.fft_acc) >= 3
    /\ ~NumIsZero(ifp.fft_vel[2]) /\ ~NumIsZero(ifp.fft_disp[3])

\* C13: integrate_fft_padded removes the drift after the truncation: what is
\* subtracted from the n truncated samples is their own mean, not the mean of
\* the pad_factor * n padded samples, so the returned velocity and the
\* returned displacement each sum to zero over their n samples.
C13_DriftRemovedAfterTruncation ==
    IfpReturned =>
        LET n == Len(ifp.data)
            velocity == ifp.ret.value.velocity
            displacement == ifp.ret.value.displacement
            head(padded) == [i \in 1..n |-> padded[i]]
        IN /\ NumIsZero(NumSum(velocity, n))
           /\ NumIsZero(NumSum(displacement, n))
           /\ \A i \in 1..n :
                 /\ velocity[i] = NumSub(ifp.velocity_padded[i],
                                         NumMean(head(ifp.velocity_padded)))
                 /\ displacement[i] = NumSub(ifp.displacement_padded[i],
                                             NumMean(head(ifp.displacement_padded)))

\* A padded record was integrated and the mean of its truncated velocity was
\* not the mean of the padded one.
C13_Witness ==
    /\ IfpReturned
    /\ ifp.pad_factor > 1 /\ Len(ifp.data) >= 2
    /\ NumMean(PySlice(ifp.velocity_padded, Len(ifp.data))) # NumMean(ifp.velocity_padded)
    /\ ~NumIsZero(ifp.ret.value.velocity[1])

\* ------------------------------------------ response of one oscillator (004)

\* The product of two numbers without a root part, which is the same in both
\* fields.
NumMulQ(x, y) == NumMul(x, y, 2)

\* np.max(np.abs(x)) of a non-empty real series: nan as soon as one sample is
\* nan.
RECURSIVE NumMaxAbsScan(_, _, _, _)
NumMaxAbsScan(x, d, i, best) ==
    IF i > Len(x) THEN best
    ELSE IF ~NumIsNumber(best) THEN best
    ELSE IF ~NumIsNumber(x[i]) THEN x[i]
    ELSE NumMaxAbsScan(x, d, i + 1,
                       IF NumLess(best, NumAbs(x[i], d), d) THEN NumAbs(x[i], d) ELSE best)

NumMaxAbs(x, d) ==
    IF ~NumIsNumber(x[1]) THEN x[1] ELSE NumMaxAbsScan(x, d, 2, NumAbs(x[1], d))

\* Line 92 with the absolute value left out (mutation of crf_static_sa).
crf_static_sa_signed(acc) == NpMax(acc)

\* Line 92: sa = np.max(np.abs(acc)), the response of a rigid oscillator;
\* np.max raises ValueError for an empty series.
crf_static_sa(acc) == NpMax(NpAbs(acc))

\* int(np.ceil(np.log2(n))) for n >= 1: the least e with 2^e >= n.
RECURSIVE CeilLog2(_, _)
CeilLog2(n, e) == IF 2^e >= n THEN e ELSE CeilLog2(n, e + 1)

\* Line 99 without the doubling (mutation of crf_n_fft).
crf_n_fft_not_doubled(n) == 2^CeilLog2(n, 0)

\* Line 99: n_fft = 2 ** int(np.ceil(np.log2(n)) + 1).
crf_n_fft(n) == 2^(CeilLog2(n, 0) + 1)

\* Lines 42-64: omega = 2 * np.pi * freq and
\* H = -1.0 / (omega_n**2 - omega**2 + 2j * h * omega_n * omega), bin by bin.
sdof_transfer_function(freq, omega_n, h) ==
    [b \in 1..Len(freq) |->
        LET omega == NumMulQ(NumTwoPi, NumRat(freq[b]))
            stiffness == NumSub(NumMulQ(omega_n, omega_n), NumMulQ(omega, omega))
            damping == NumMulQ(NumMulQ(NumMulQ(NumMulQ(NumInt(2), NumI), NumRat(h)),
                                       omega_n), omega)
        IN NumDiv(NumInt(-1), NumAdd(stiffness, damping), 2)]

\* Line 107: disp_fft = acc_fft * H_disp.
crf_disp_fft(acc_fft, H_disp, d) ==
    [b \in 1..Len(acc_fft) |-> NumMul(acc_fft[b], H_disp[b], d)]

\* Line 111: vel_fft = 1j * omega * disp_fft.
crf_vel_fft(omega, disp_fft, d) ==
    [b \in 1..Len(disp_fft) |-> NumMul(NumMulQ(NumI, omega[b]), disp_fft[b], d)]

\* Line 115, the first value given to abs_acc_fft:
\* acc_fft + (-omega**2 * disp_fft - 2 * h * omega_n * vel_fft / (1j)).
crf_abs_acc_fft_first(acc_fft, omega, disp_fft, vel_fft, h, omega_n, d) ==
    [b \in 1..Len(acc_fft) |->
        NumAdd(acc_fft[b],
               NumSub(NumMul(NumNeg(NumMulQ(omega[b], omega[b])), disp_fft[b], d),
                      NumDiv(NumMul(NumMulQ(NumMulQ(NumInt(2), NumRat(h)), omega_n),
                                    vel_fft[b], d),
                             NumI, d)))]

\* Line 119: rel_acc_fft = -omega**2 * disp_fft.
crf_rel_acc_fft(omega, disp_fft, d) ==
    [b \in 1..Len(disp_fft) |-> NumMul(NumNeg(NumMulQ(omega[b], omega[b])), disp_fft[b], d)]

\* Line 120, the second value given to abs_acc_fft: acc_fft + rel_acc_fft.
crf_abs_acc_fft(acc_fft, rel_acc_fft) ==
    [b \in 1..Len(acc_fft) |-> NumAdd(acc_fft[b], rel_acc_fft[b])]

\* Line 125 reading the value of line 115 (mutation of crf_abs_acc_fft_read).
crf_abs_acc_fft_read_first(first, second) == first

\* Line 125: abs_acc_fft is read after both assignments and holds the second.
crf_abs_acc_fft_read(first, second) == second

\* Lines 123-125: the [:n] of an inverse transform.
crf_truncate(series, n) == SubSeq(series, 1, Min2(n, Len(series)))

\* Lines 91-132: calculate_response_fft, as the locals it has assigned when it
\* returns or raises.  For an empty series and a period other than 0,
\* log2(0) is -inf and int() of it raises OverflowError.
calculate_response_fft(acc, dt, period, h) ==
    IF period.num = 0
    THEN LET sa == crf_static_sa(acc)
         IN IF ~sa.ok THEN [branch |-> "static", period |-> period, ret |-> sa]
            ELSE [branch |-> "static", period |-> period, sa |-> NumInt(sa.value),
                  ret |-> Return(<<NumZero, NumZero, NumInt(sa.value)>>)]
    ELSE IF Len(acc) = 0
    THEN [branch |-> "fft", period |-> period, n |-> 0, ret |-> Raise("OverflowError")]
    ELSE
    LET n == Len(acc)
        omega_n == NumMulQ(NumTwoPi, NumRat(RatInv(period)))
        n_fft == crf_n_fft(n)
        d == FieldD(n_fft)
        acc_fft == rfft_n([i \in 1..n |-> NumInt(acc[i])], n_fft).value
        freq == rfftfreq(n_fft, dt)
        H_disp == sdof_transfer_function(freq, omega_n, h)
        disp_fft == crf_disp_fft(acc_fft, H_disp, d)
        omega == [b \in 1..Len(freq) |-> NumMulQ(NumTwoPi, NumRat(freq[b]))]
        vel_fft == crf_vel_fft(omega, disp_fft, d)
        first == crf_abs_acc_fft_first(acc_fft, omega, disp_fft, vel_fft, h, omega_n, d)
        rel_acc_fft == crf_rel_acc_fft(omega, disp_fft, d)
        second == crf_abs_acc_fft(acc_fft, rel_acc_fft)
        abs_acc_fft == crf_abs_acc_fft_read(first, second)
        disp_full == irfft(disp_fft, n_fft)
        vel_full == irfft(vel_fft, n_fft)
        abs_acc_full == irfft(abs_acc_fft, n_fft)
        disp == crf_truncate(disp_full, n)
        vel == crf_truncate(vel_full, n)
        abs_acc_resp == crf_truncate(abs_acc_full, n)
    IN [branch |-> "fft", period |-> period, n |-> n, omega_n |-> omega_n,
        n_fft |-> n_fft,
        acc_fft |-> acc_fft, freq |-> freq, H_disp |-> H_disp, disp_fft |-> disp_fft,
        omega |-> omega, vel_fft |-> vel_fft, abs_acc_fft_first |-> first,
        rel_acc_fft |-> rel_acc_fft, abs_acc_fft |-> abs_acc_fft,
        disp_full |-> disp_full, vel_full |-> vel_full, abs_acc_full |-> abs_acc_full,
        disp |-> disp, vel |-> vel, abs_acc_resp |-> abs_acc_resp,
        ret |-> Return(<<NumMaxAbs(disp, d), NumMaxAbs(vel, d), NumMaxAbs(abs_acc_resp, d)>>)]

\* ---------------------------------------- calculate_response_spectrum (004)

\* Acceleration samples, sample intervals and damping ratios of the response
\* runs: a few units each, so that the exact spectra stay within the integers
\* of the checker.  Damping 0 is the undamped oscillator.
CrsSamples == {-1, 0, 2}

CrsIntervals == {Rat(1, 1), Rat(1, 2)}

CrsDampings == {Rat(0, 1), Rat(1, 2)}

\* The natural periods offered to a record of n samples sampled every dt:
\* the rigid oscillator (0) and, for the records whose transform has 2 or 4
\* points, 2 s and 4 s; for the longer records, 4 sample intervals.  A period
\* of 2 or 4 sample intervals falls on a frequency of the transform.
CrsPeriods(n, dt) ==
    IF n <= 2 THEN {Rat(0, 1), Rat(2, 1), Rat(4, 1)}
    ELSE {Rat(0, 1), RatMulInt(dt, 4)}

\* The period grids: every sequence of at most two periods, in any order and
\* with repetitions.
CrsGrids(P) == UNION {[1..m -> P] : m \in 0..2}

CrsInputs ==
    UNION {[acc : [1..n -> CrsSamples], dt : {dt}, periods : CrsGrids(CrsPeriods(n, dt)),
            h : CrsDampings] : n \in 0..4, dt \in CrsIntervals}

\* The field of the responses of a record: that of its transform length.
CrsField(acc) == IF Len(acc) = 0 THEN 2 ELSE FieldD(crf_n_fft(Len(acc)))

\* np.zeros(n).
NpZeros(n) == [i \in 1..n |-> NumZero]

\* The locals of calculate_response_spectrum before anything is assigned;
\* call holds the locals of the latest calculate_response_fft.
CrsStart(args) ==
    [pc |-> "alloc", acc |-> args.acc, dt |-> args.dt, periods |-> args.periods,
     h |-> args.h, i |-> 0, sd_arr |-> <<>>, sv_arr |-> <<>>, sa_arr |-> <<>>,
     psv_arr |-> <<>>, call |-> Unassigned, ret |-> NoResult]

CrsInit ==
    /\ OnlyCrs
    /\ \E args \in CrsInputs : crs = CrsStart(args)

\* Lines 156-158: the three arrays of len(periods) zeros.
CrsAllocate ==
    /\ crs.pc = "alloc"
    /\ crs' = [crs EXCEPT !.pc = "loop", !.i = 1,
                          !.sd_arr = NpZeros(Len(crs.periods)),
                          !.sv_arr = NpZeros(Len(crs.periods)),
                          !.sa_arr = NpZeros(Len(crs.periods))]
    /\ UNCHANGED crsFrame

\* Lines 160-164: one turn of the loop over the periods; an exception of
\* calculate_response_fft leaves the function.
CrsPeriod ==
    /\ crs.pc = "loop"
    /\ crs.i <= Len(crs.periods)
    /\ \E call \in {calculate_response_fft(crs.acc, crs.dt, crs.periods[crs.i], crs.h)} :
          crs' = IF ~call.ret.ok
                 THEN [crs EXCEPT !.pc = "done", !.call = call, !.ret = call.ret]
                 ELSE [crs EXCEPT !.i = crs.i + 1, !.call = call,
                                  !.sd_arr[crs.i] = call.ret.value[1],
                                  !.sv_arr[crs.i] = call.ret.value[2],
                                  !.sa_arr[crs.i] = call.ret.value[3]]
    /\ UNCHANGED crsFrame

\* Line 169 for one place of the mask: (2 * np.pi / periods[i]) * sd_arr[i].
crs_pseudo_velocity(period, sd, d) ==
    NumMul(NumMulQ(NumTwoPi, NumRat(RatInv(period))), sd, d)

\* Lines 167-169: psv_arr is zero except where periods > 0.
CrsPseudoVelocity ==
    /\ crs.pc = "loop"
    /\ crs.i > Len(crs.periods)
    /\ crs' = [crs EXCEPT !.pc = "return",
                  !.psv_arr = [i \in 1..Len(crs.periods) |->
                                  IF RatLt(Rat(0, 1), crs.periods[i])
                                  THEN crs_pseudo_velocity(crs.periods[i], crs.sd_arr[i],
                                                           CrsField(crs.acc))
                                  ELSE NumZero]]
    /\ UNCHANGED crsFrame

\* Lines 171-176: the dict of the four arrays.
CrsReturn ==
    /\ crs.pc = "return"
    /\ crs' = [crs EXCEPT !.pc = "done",
                  !.ret = Return([SD |-> crs.sd_arr, SV |-> crs.sv_arr,
                                  SA |-> crs.sa_arr, pSV |-> crs.psv_arr])]
    /\ UNCHANGED crsFrame

CrsNext == CrsAllocate \/ CrsPeriod \/ CrsPseudoVelocity \/ CrsReturn

SpecResponse == CrsInit /\ [][CrsNext]_vars

\* Every array and return value of a response run is well formed.
CrsTypeOK ==
    /\ crs.pc \in {"alloc", "loop", "return", "done"}
    /\ crs.pc = "done" => crs.ret # NoResult

\* ------------------------------------------------------------- claim C14

\* The largest magnitude of a non-empty series.
LargestMagnitude(acc) ==
    CHOOSE m \in {Abs(acc[i]) : i \in 1..Len(acc)} : \A j \in 1..Len(acc) : Abs(acc[j]) <= m

\* The latest calculate_response_fft was for the period 0 and a non-empty
\* series.
CrsStaticCall ==
    /\ crs.call # Unassigned
    /\ crs.call.period.num = 0
    /\ Len(crs.acc) >= 1

\* C14: for the period 0, calculate_response_fft returns SD = 0, SV = 0 and
\* SA = the largest |acc[i]| exactly, for every non-empty series and every
\* damping ratio, and it has assigned no transform, no transform length and
\* no response series when it returns; calculate_response_spectrum then gives
\* pSV = 0 at every place of the grid where the period is 0.
C14_RigidOscillator ==
    /\ CrsStaticCall =>
          /\ crs.call.ret = Return(<<NumZero, NumZero, NumInt(LargestMagnitude(crs.acc))>>)
          /\ DOMAIN crs.call = {"branch", "period", "sa", "ret"}
    /\ (crs.pc = "done" /\ crs.ret.ok) =>
          \A i \in 1..Len(crs.periods) :
              (crs.periods[i].num = 0 /\ Len(crs.acc) >= 1) =>
                  /\ crs.ret.value.pSV[i] = NumZero
                  /\ crs.ret.value.SD[i] = NumZero
                  /\ crs.ret.value.SV[i] = NumZero
                  /\ crs.ret.value.SA[i] = NumInt(LargestMagnitude(crs.acc))

\* A damped run over the grid <<4 s, 0 s>> of a record whose largest
\* magnitude is that of a negative sample has returned.
C14_Witness ==
    /\ crs.pc = "done"
    /\ crs.ret.ok
    /\ crs.acc = <<0, -1>>
    /\ crs.h = Rat(1, 2)
    /\ crs.periods = <<Rat(4, 1), Rat(0, 1)>>
    /\ crs.call.branch = "static"
    /\ crs.ret.value.SA[2] = NumInt(1)
    /\ crs.ret.value.pSV[2] = NumZero
    /\ ~NumIsZero(crs.ret.value.pSV[1])

\* ------------------------------------------------------------- claim C15

\* The latest calculate_response_fft took the transform branch with a
\* non-empty series.
CrsFftCall ==
    /\ crs.call # Unassigned
    /\ crs.call.branch = "fft"
    /\ crs.call.ret.ok

PowersOfTwo == {2^e : e \in 0..8}

\* Record lengths for which the transform length alone is examined.
RecordLengths == 1..40

\* The smallest power of two that is at least m.
NextPowerOfTwo(m) ==
    CHOOSE p \in PowersOfTwo : p >= m /\ \A q \in PowersOfTwo : q >= m => p <= q

\* The series, as numbers, followed by zeros up to n samples.
ZeroPadded(acc, n) == [i \in 1..n |-> IF i <= Len(acc) THEN NumInt(acc[i]) ELSE NumZero]

\* C15: for a record of n >= 1 samples and a period T > 0 the transform
\* length is n_fft = 2 * 2^ceil(log2(n)): a power of two, the smallest one
\* that is at least 2n, with 2n <= n_fft < 4n (for the records of the runs
\* and, the length alone, for n up to 40).  The spectrum transformed is
\* that of the record followed by zeros up to n_fft samples, the inverse
\* transforms have n_fft samples, and each response series is their first n
\* samples.
C15_TransformLength ==
    /\ \A m \in RecordLengths :
          /\ crf_n_fft(m) = 2 * NextPowerOfTwo(m)
          /\ crf_n_fft(m) = NextPowerOfTwo(2 * m)
          /\ 2 * m <= crf_n_fft(m) /\ crf_n_fft(m) < 4 * m
    /\ CrsFftCall =>
        LET c == crs.call
            n == Len(crs.acc)
        IN /\ RatLt(Rat(0, 1), c.period)
           /\ n >= 1
           /\ c.n = n
           /\ c.n_fft = 2 * NextPowerOfTwo(n)
           /\ c.n_fft \in PowersOfTwo
           /\ c.n_fft = NextPowerOfTwo(2 * n)
           /\ 2 * n <= c.n_fft
           /\ c.n_fft < 4 * n
           /\ Len(c.acc_fft) = c.n_fft \div 2 + 1
           /\ irfft(c.acc_fft, c.n_fft) = ZeroPadded(crs.acc, c.n_fft)
           /\ Len(c.disp_full) = c.n_fft
           /\ Len(c.vel_full) = c.n_fft
           /\ Len(c.abs_acc_full) = c.n_fft
           /\ Len(c.disp) = n /\ Len(c.vel) = n /\ Len(c.abs_acc_resp) = n
           /\ \A i \in 1..n : /\ c.disp[i] = c.disp_full[i]
                              /\ c.vel[i] = c.vel_full[i]
                              /\ c.abs_acc_resp[i] = c.abs_acc_full[i]

\* A record of three samples has been transformed with eight points, and the
\* displacement dropped by the truncation is not zero.
C15_Witness ==
    /\ CrsFftCall
    /\ Len(crs.acc) = 3
    /\ crs.call.n_fft = 8
    /\ NumIsNumber(crs.call.ret.value[1])
    /\ \E i \in 4..8 : NumIsNumber(crs.call.disp_full[i]) /\ ~NumIsZero(crs.call.disp_full[i])

\* ------------------------------------------------------------- claim C16

\* A - w^2 * D at bin b of the latest call.
CrsAbsAccBin(b) ==
    LET c == crs.call
        w == NumMulQ(NumTwoPi, NumRat(c.freq[b]))
    IN NumSub(c.acc_fft[b], NumMul(NumMulQ(w, w), c.disp_fft[b], FieldD(c.n_fft)))

\* The largest magnitude among the first n samples of the inverse transform
\* of a spectrum of the latest call.
CrsPeakOf(spectrum) ==
    NumMaxAbs(SubSeq(irfft(spectrum, crs.call.n_fft), 1, crs.call.n), FieldD(crs.call.n_fft))

\* C16: the absolute-acceleration spectrum that calculate_response_fft
\* inverse-transforms and reduces to SA is A - w^2 * D at every bin; SA is
\* the peak of the inverse transform of that spectrum and SD and SV are the
\* peaks of the displacement and velocity series, so the first value given to
\* the variable, the one with the damping term 2 * h * w_n * V / i, reaches
\* none of them.  Examined where the call returns into the loop.
C16_AbsoluteAccelerationSpectrum ==
    (CrsFftCall /\ crs.pc = "loop") =>
        LET c == crs.call
            d == FieldD(c.n_fft)
        IN \E AbsAcc \in {[b \in 1..Len(c.acc_fft) |-> CrsAbsAccBin(b)]} :
              /\ c.abs_acc_fft = AbsAcc
              /\ c.ret.value[1] = NumMaxAbs(c.disp, d)
              /\ c.ret.value[2] = NumMaxAbs(c.vel, d)
              /\ c.ret.value[3] = CrsPeakOf(AbsAcc)

\* A damped call whose first value of abs_acc_fft differs from the one that
\* is read, and would have given another SA.
C16_Witness ==
    /\ CrsFftCall
    /\ crs.h = Rat(1, 2)
    /\ NumIsNumber(crs.call.ret.value[3])
    /\ \E b \in 1..Len(crs.call.acc_fft) :
          /\ NumIsNumber(crs.call.abs_acc_fft_first[b])
          /\ crs.call.abs_acc_fft_first[b] # crs.call.abs_acc_fft[b]
    /\ CrsPeakOf(crs.call.abs_acc_fft_first) # crs.call.ret.value[3]

\* ------------------------------------------------------------- claim C17

\* calculate_response_spectrum has returned its dict.
CrsReturned == crs.pc = "done" /\ crs.ret.ok

\* x is a real number and x >= 0.
NumNonNegative(x, d) ==
    /\ NumIsNumber(x)
    /\ x.ia = 0 /\ x.ib = 0
    /\ NumSign(x, d) >= 0

\* (2 pi / T) * sd, written out.
PseudoVelocityOf(T, sd, d) ==
    NumMul(NumMul(NumTwoPi, NumRat(Rat(T.den, T.num)), d), sd, d)

\* C17: calculate_response_spectrum returns the four arrays SD, SV, SA and
\* pSV, each with one entry per period in the order of the grid: the entry at
\* place i is what calculate_response_fft gives for the period at place i
\* alone, whatever the other periods of the grid are.  pSV[i] is
\* (2 pi / T_i) * SD[i] where T_i > 0 and 0 where T_i = 0.  All four are
\* >= 0 at every place.
C17_SpectrumArrays ==
    CrsReturned =>
        LET r == crs.ret.value
            d == CrsField(crs.acc)
            m == Len(crs.periods)
        IN /\ DOMAIN r = {"SD", "SV", "SA", "pSV"}
           /\ Len(r.SD) = m /\ Len(r.SV) = m /\ Len(r.SA) = m /\ Len(r.pSV) = m
           /\ \A i \in 1..m :
                \E alone \in {calculate_response_fft(crs.acc, crs.dt, crs.periods[i], crs.h)} :
                   /\ alone.ret.ok
                   /\ r.SD[i] = alone.ret.value[1]
                   /\ r.SV[i] = alone.ret.value[2]
                   /\ r.SA[i] = alone.ret.value[3]
                   /\ r.pSV[i] = IF crs.periods[i].num = 0 THEN NumZero
                                 ELSE PseudoVelocityOf(crs.periods[i], alone.ret.value[1], d)
           /\ \A i \in 1..m : /\ NumNonNegative(r.SD[i], d)
                              /\ NumNonNegative(r.SV[i], d)
                              /\ NumNonNegative(r.SA[i], d)
                              /\ NumNonNegative(r.pSV[i], d)

\* The part of C17 the code satisfies: the same statement for a positive
\* damping ratio.  Without damping, a natural frequency that is one of the
\* frequencies of the transform makes the transfer function divide by zero
\* and the four entries of that period are nan.
SpectrumArraysWhenDamped ==
    RatLt(Rat(0, 1), crs.h) => C17_SpectrumArrays

\* A damped run over a grid of two different positive periods, given in
\* decreasing order, has returned different non-zero responses for them.
CrsDampedRunReturned ==
    /\ CrsReturned
    /\ crs.h = Rat(1, 2)
    /\ crs.periods = <<Rat(4, 1), Rat(2, 1)>>
    /\ crs.ret.value.SD[1] # crs.ret.value.SD[2]
    /\ ~NumIsZero(crs.ret.value.pSV[1])
    /\ ~NumIsZero(crs.ret.value.pSV[2])
    /\ crs.ret.value.pSV[1] # crs.ret.value.SD[1]

\* An undamped run has returned nan for a period of two sample intervals.
CrsUndampedResonance ==
    /\ CrsReturned
    /\ crs.h = Rat(0, 1)
    /\ crs.acc = <<2>>
    /\ crs.dt = Rat(1, 1)
    /\ crs.periods = <<Rat(2, 1)>>
    /\ crs.ret.value.SD = <<NumNaN>>
    /\ crs.ret.value.SV = <<NumNaN>>
    /\ crs.ret.value.SA = <<NumNaN>>
    /\ crs.ret.value.pSV = <<NumNaN>>

\* ------------------------------------------------------------- claim C18

METRICS == {"SD", "SV", "SA", "pSV"}

\* The response-spectrum process_station has computed results['H'].
RsCombined == proc.script = "response" /\ proc.pc \in {"write", "return"} /\ proc.ret # "False"

\* Values a response may take: the responses are maxima of magnitudes, hence
\* not negative.
ResponseMagnitudes == {0, 1, 3, 4}

\* The entry of a component for a metric and a place of the grid is the
\* response of that component's samples at that period for that metric.
RsEntryOf(entry, comp, metric, i) ==
    IF metric = "pSV"
    THEN /\ entry.fn = "pseudo_velocity"
         /\ entry.period = proc.periods[i]
         /\ entry.sd = response_term("SD", RawSamples(comp), proc.dt, proc.periods[i],
                                     DAMPING_RATIO)
    ELSE entry = response_term(metric, RawSamples(comp), proc.dt, proc.periods[i],
                               DAMPING_RATIO)

\* C18: in the response-spectrum process_station, H at each period and for
\* each of SD, SV, SA and pSV is sqrt(NS^2 + EW^2) of the NS and EW entries of
\* that metric at that period, and of nothing else: UD is not an operand.
\* Hence, whatever non-negative values the two entries have,
\* H >= max(NS, EW) >= 0 (compared through the squares).
C18_HorizontalSrss ==
    RsCombined =>
        \A metric \in METRICS :
            /\ Len(proc.results["H"][metric]) = Len(proc.periods)
            /\ \A i \in 1..Len(proc.periods) :
                  LET h == proc.results["H"][metric][i]
                  IN /\ h.fn = "srss"
                     /\ DOMAIN h = {"fn", "a", "b"}
                     /\ h.a = proc.results["NS"][metric][i]
                     /\ h.b = proc.results["EW"][metric][i]
                     /\ RsEntryOf(h.a, "NS", metric, i)
                     /\ RsEntryOf(h.b, "EW", metric, i)
                     /\ \A value \in [{h.a, h.b} -> ResponseMagnitudes] :
                           LET ns_value == value[h.a]
                               ew_value == value[h.b]
                               h_squared == ns_value * ns_value + ew_value * ew_value
                               larger == IF ns_value >= ew_value THEN ns_value ELSE ew_value
                           IN h_squared >= larger * larger /\ larger >= 0

\* A run on a record whose three columns differ has computed H.
C18_Witness ==
    /\ RsCombined
    /\ Len(RawSamples("NS")) = 4
    /\ RawSamples("NS") # RawSamples("EW")
    /\ RawSamples("UD") # RawSamples("EW")
    /\ RawSamples("UD") # RawSamples("NS")
    /\ proc.results["H"].SA[PERIOD_NUM].b = proc.results["EW"].SA[PERIOD_NUM]
    /\ proc.results["H"].pSV[1].a.sd.acc = RawSamples("NS")

\* ------------------------------------------------------------- claim C19

\* The response-spectrum process_station has built its period grid.
RsGridBuilt ==
    /\ proc.script = "response"
    /\ proc.pc \in {"spectrum", "horizontal", "write"} \/ Len(proc.calls) >= 1

\* The point lo^(1-w) * hi^w of a grid is the rational q: at the share 0 it
\* is lo and at the share 1 it is hi.
PeriodEquals(p, q) ==
    \/ RatEq(p.w, Rat(0, 1)) /\ RatEq(p.lo, q)
    \/ RatEq(p.w, Rat(1, 1)) /\ RatEq(p.hi, q)

\* p < q for two points of one grid with 0 < lo < hi: the larger share is the
\* larger period.
PeriodLess(p, q) ==
    /\ p.lo = q.lo /\ p.hi = q.hi
    /\ RatLt(Rat(0, 1), p.lo) /\ RatLt(p.lo, p.hi)
    /\ RatLt(p.w, q.w)

\* q / p = (hi / lo)^(q.w - p.w) for two points of one grid: the exponent.
PeriodRatioExponent(p, q) == RatSub(q.w, p.w)

\* C19: the period grid of process_station has exactly 100 points, the first
\* is 0.02 s and the last 10.0 s (in real numbers), it is strictly
\* increasing and the ratio of consecutive periods is the same all along;
\* no point is 0, and no calculate_response_fft of a run takes the T = 0
\* branch.
C19_DefaultPeriodGrid ==
    RsGridBuilt =>
        LET T == proc.periods
        IN /\ Len(T) = 100
           /\ PeriodEquals(T[1], Rat(2, 100))
           /\ PeriodEquals(T[Len(T)], Rat(10, 1))
           /\ \A i \in 1..(Len(T) - 1) :
                 /\ PeriodLess(T[i], T[i + 1])
                 /\ RatEq(PeriodRatioExponent(T[i], T[i + 1]), PeriodRatioExponent(T[1], T[2]))
           /\ \A i \in 1..Len(T) : ~period_is_zero(T[i])
           /\ \A k \in 1..Len(proc.calls) :
                 proc.calls[k].out.ok =>
                     \A i \in 1..Len(T) :
                         /\ proc.calls[k].out.value.SD[i].branch = "fft"
                         /\ proc.calls[k].out.value.SV[i].branch = "fft"
                         /\ proc.calls[k].out.value.SA[i].branch = "fft"
                         /\ proc.calls[k].out.value.pSV[i].fn = "pseudo_velocity"

\* A run has built the grid and made its three calls; the second point lies
\* strictly between the ends.
C19_Witness ==
    /\ RsGridBuilt
    /\ Len(proc.calls) = Len(COMPONENTS)
    /\ proc.calls[1].out.ok
    /\ RatLt(Rat(0, 1), proc.periods[2].w)
    /\ RatLt(proc.periods[2].w, Rat(1, 1))
    /\ proc.calls[1].out.value.SV[2].period = proc.periods[2]

\* ------------------------------------------------------------- claim C20

\* The response-spectrum process_station has written response_spectrum.csv.
RsWritten == SpectraWritten /\ proc.script = "response"

\* The SV response of a component's samples at place i of the grid.
RsVelocityResponse(comp, i) ==
    response_term("SV", RawSamples(comp), proc.dt, proc.periods[i], DAMPING_RATIO)

\* C20: the table written as response_spectrum.csv has the columns period,
\* NS, EW, UD, H in this order and one row per period in the order of the
\* grid; in row i, period is the i-th period, NS, EW and UD are the SV
\* responses of the components at that period and H is the SRSS of the NS
\* and EW SV responses at that period.  SD, SA and pSV have been computed for
\* NS, EW, UD and H, and the table has no column for them: its entries are
\* the SV ones.
C20_ResponseSpectrumTable ==
    RsWritten =>
        LET table == station_dir.response_spectrum_csv.content.table
            grid == logspace_periods(PERIOD_MIN, PERIOD_MAX, PERIOD_NUM)
        IN /\ station_dir.response_spectrum_csv.exists
           /\ DOMAIN table = {"columns", "period", "NS", "EW", "UD", "H"}
           /\ table.columns = <<"period", "NS", "EW", "UD", "H">>
           /\ table.period = grid
           /\ \A c \in {"NS", "EW", "UD", "H"} : Len(table[c]) = Len(grid)
           /\ \A i \in 1..Len(grid) :
                 /\ table.NS[i] = RsVelocityResponse("NS", i)
                 /\ table.EW[i] = RsVelocityResponse("EW", i)
                 /\ table.UD[i] = RsVelocityResponse("UD", i)
                 /\ table.H[i] = [fn |-> "srss", a |-> RsVelocityResponse("NS", i),
                                  b |-> RsVelocityResponse("EW", i)]
           /\ \A c \in {"NS", "EW", "UD", "H"} :
                 /\ DOMAIN proc.results[c] = METRICS
                 /\ \A metric \in METRICS \ {"SV"} :
                       /\ Len(proc.results[c][metric]) = Len(grid)
                       /\ \A i \in 1..Len(grid) :
                             proc.results[c][metric][i] # table[c][i]

\* A run on a four-sample record whose three columns differ has written the
\* table.
C20_Witness ==
    /\ RsWritten
    /\ Len(RawSamples("NS")) = 4
    /\ RawSamples("NS") # RawSamples("EW")
    /\ RawSamples("UD") # RawSamples("EW")
    /\ RawSamples("UD") # RawSamples("NS")
    /\ station_dir.response_spectrum_csv.content.table.UD[PERIOD_NUM]
           = RsVelocityResponse("UD", PERIOD_NUM)
    /\ station_dir.response_spectrum_csv.content.float_format = "%.6e"

\* ------------------------------------------------------ process_jma_station

\* The record lengths of the JMA files.
JmaLengths == {0, 1, 2}

\* Sample values of the JMA files: one of them, -1.0005 gal, is not a
\* multiple of 0.001 gal.
JmaSamples == {-GalUnit - 1, 0, GalUnit}

\* One JMA file: the three columns parse_jma_data reads (equal in length, as
\* the columns of one table), whether the seven header lines parse, the
\* sampling frequency of the header, whether the first five characters of
\* the file name are digits, and whether max.csv has a row for the station.
JmaFiles ==
    UNION {[NS : [1..n -> JmaSamples], EW : [1..n -> JmaSamples], UD : [1..n -> JmaSamples],
            header_ok : BOOLEAN, sampling_freq : SamplingFreqs,
            code_numeric : BOOLEAN, in_max_csv : BOOLEAN] : n \in JmaLengths}

\* The row of max.csv for a station, as load_jma_max_csv keys it.
MaxCsvRow ==
    [intensity |-> "5+", vel_ns |-> 11, vel_ew |-> 12, vel_ud |-> 13, vel_total |-> 14,
     disp_ns |-> 21, disp_ew |-> 22, disp_ud |-> 23, disp_total |-> 24]

\* The locals of process_jma_station before anything is assigned.
JmaStart(file) ==
    [pc |-> "parse", file |-> file, ns_data |-> <<>>, ew_data |-> <<>>, ud_data |-> <<>>,
     num_samples |-> 0, datetimes |-> <<>>, ret |-> "running"]

JmaInit ==
    /\ OnlyJma
    /\ \E file \in JmaFiles : jma = JmaStart(file)
    /\ jma_out = [waveform_csv |-> Absent, metadata_yml |-> Absent]

\* except Exception: log and return False.
JmaFail == [jma EXCEPT !.pc = "return", !.ret = "False"]

\* Lines 287-302: the header and the data section are parsed, a malformed
\* header raising, and the timestamps of len(df) samples are generated.
JmaParse ==
    /\ jma.pc = "parse"
    /\ jma' = IF ~jma.file.header_ok THEN JmaFail
              ELSE [jma EXCEPT !.pc = "waveform", !.num_samples = Len(jma.file.NS),
                               !.datetimes = generate_datetime_series(
                                                 0, Len(jma.file.NS), jma.file.sampling_freq)]
    /\ UNCHANGED <<jma_out, jmaFrame>>

\* Lines 305-319: the three columns become lists and waveform.csv is written.
JmaWaveform ==
    /\ jma.pc = "waveform"
    /\ LET out_df == DataFrame(jma.datetimes, jma.file.NS, jma.file.EW, jma.file.UD)
       IN IF ~out_df.ok
          THEN jma' = JmaFail /\ UNCHANGED jma_out
          ELSE /\ jma' = [jma EXCEPT !.pc = "peaks", !.ns_data = jma.file.NS,
                                     !.ew_data = jma.file.EW, !.ud_data = jma.file.UD]
               /\ jma_out' = [jma_out EXCEPT !.waveform_csv = File(out_df.value)]
    /\ UNCHANGED jmaFrame

\* Lines 364-376: the peak velocities and displacements of max.csv, four
\* keys each, when max.csv has the station.
jma_max_csv_entries(max_info) ==
    [max_velocity |-> [NS |-> max_info.vel_ns, EW |-> max_info.vel_ew,
                       UD |-> max_info.vel_ud, total |-> max_info.vel_total],
     max_displacement |-> [NS |-> max_info.disp_ns, EW |-> max_info.disp_ew,
                           UD |-> max_info.disp_ud, total |-> max_info.disp_total]]

\* The acceleration summary without its horizontal entry.
jma_max_acceleration_without_h(peak_ns, peak_ew, peak_ud, peak_h, peak_total) ==
    [NS |-> Round3(peak_ns), EW |-> Round3(peak_ew), UD |-> Round3(peak_ud),
     total |-> Round3(peak_total)]

\* Lines 355-361: the acceleration summary of the metadata.
jma_max_acceleration(peak_ns, peak_ew, peak_ud, peak_h, peak_total) ==
    [NS |-> Round3(peak_ns), EW |-> Round3(peak_ew), UD |-> Round3(peak_ud),
     H |-> Round3(peak_h), total |-> Round3(peak_total)]

\* Lines 322-381: the five peaks are computed, the row of max.csv is looked
\* up by int(station_code), and metadata.yml is written; a peak function that
\* raises, or a station code that is not a number, ends the file with False.
JmaPeaksAndMetadata ==
    /\ jma.pc = "peaks"
    /\ LET peak_ns == calc_signed_peak(jma.ns_data)
           peak_ew == calc_signed_peak(jma.ew_data)
           peak_ud == calc_signed_peak(jma.ud_data)
           peak_h == calc_peak_horizontal(jma.ns_data, jma.ew_data)
           peak_total == calc_peak_total(jma.ns_data, jma.ew_data, jma.ud_data)
           metadata ==
               [start_time |-> jma.datetimes[1],
                end_time |-> jma.datetimes[Len(jma.datetimes)],
                sampling_rate_hz |-> jma.file.sampling_freq,
                num_samples |-> jma.num_samples,
                max_acceleration |->
                    jma_max_acceleration(peak_ns.value, peak_ew.value, peak_ud.value,
                                         peak_h.value, peak_total.value)]
       IN IF ~(peak_ns.ok /\ peak_ew.ok /\ peak_ud.ok /\ peak_h.ok /\ peak_total.ok)
             \/ ~jma.file.code_numeric
          THEN jma' = JmaFail /\ UNCHANGED jma_out
          ELSE /\ jma' = [jma EXCEPT !.pc = "return", !.ret = "True"]
               /\ jma_out' = [jma_out EXCEPT !.metadata_yml = File(
                      IF jma.file.in_max_csv
                      THEN [intensity |-> MaxCsvRow.intensity]
                           @@ jma_max_csv_entries(MaxCsvRow) @@ metadata
                      ELSE metadata)]
    /\ UNCHANGED jmaFrame

JmaNext == JmaParse \/ JmaWaveform \/ JmaPeaksAndMetadata

\* process_nied_station, process_jma_station and the velocity/displacement
\* process_station, one of them per behaviour: the writers of peak summaries.
MetadataInit == NiedInit \/ JmaInit \/ VdInit

MetadataNext == NiedNext \/ JmaNext \/ (proc.pc # "idle" /\ VdNext)

SpecMetadata == MetadataInit /\ [][MetadataNext]_vars

\* ------------------------------------------------------------- claim C21

\* The keys of a peak summary.
SummaryKeys == {"NS", "EW", "UD", "H", "total"}

\* v is x rounded to 3 decimal places: a multiple of 0.001 that is at most
\* half of 0.001 away from x.
RoundedTo3(v, x) ==
    /\ v % (GalUnit \div 1000) = 0
    /\ 2 * Abs(v - x) <= GalUnit \div 1000

\* s is the summary of the three columns of a waveform table.
SummaryOfTable(s, table) ==
    /\ DOMAIN s = SummaryKeys
    /\ RoundedTo3(s.NS, calc_signed_peak(table.NS).value)
    /\ RoundedTo3(s.EW, calc_signed_peak(table.EW).value)
    /\ RoundedTo3(s.UD, calc_signed_peak(table.UD).value)
    /\ RoundedTo3(s.H, calc_peak_horizontal(table.NS, table.EW).value)
    /\ RoundedTo3(s.total, calc_peak_total(table.NS, table.EW, table.UD).value)

\* round(fn(arrays), 3) of integrated series.
RoundedCall(fn, arrays) == [fn |-> "round", ndigits |-> 3, x |-> [fn |-> fn, args |-> arrays]]

\* s is the summary of the three columns of a table of integrated series.
SummaryOfIntegrated(s, table) ==
    /\ DOMAIN s = SummaryKeys
    /\ s.NS = RoundedCall("calc_signed_peak", <<table.NS>>)
    /\ s.EW = RoundedCall("calc_signed_peak", <<table.EW>>)
    /\ s.UD = RoundedCall("calc_signed_peak", <<table.UD>>)
    /\ s.H = RoundedCall("calc_peak_horizontal", <<table.NS, table.EW>>)
    /\ s.total = RoundedCall("calc_peak_total", <<table.NS, table.EW, table.UD>>)

\* The velocity/displacement process_station has rewritten metadata.yml.
VdMetadataWritten == proc.pc = "return" /\ proc.script = "velocity" /\ proc.ret = "True"

\* C21: every peak summary written to a metadata.yml, max_acceleration by
\* process_nied_station and process_jma_station and max_velocity_calculated
\* and max_displacement_calculated by the velocity/displacement
\* process_station, has exactly the keys NS, EW, UD, H and total; NS, EW and
\* UD are the signed peaks of the columns of the table written beside it, H
\* the horizontal peak of NS and EW, total the three-axis peak, each rounded
\* to 3 decimal places.
C21_PeakSummaries ==
    /\ nied_out.metadata_yml.exists =>
           SummaryOfTable(nied_out.metadata_yml.content.max_acceleration,
                          nied_out.waveform_csv.content)
    /\ jma_out.metadata_yml.exists =>
           SummaryOfTable(jma_out.metadata_yml.content.max_acceleration,
                          jma_out.waveform_csv.content)
    /\ VdMetadataWritten =>
           LET written == station_dir.metadata_yml.content.dict
           IN /\ SummaryOfIntegrated(written.max_velocity_calculated,
                                     station_dir.velocity_csv.content)
              /\ SummaryOfIntegrated(written.max_displacement_calculated,
                                     station_dir.displacement_csv.content)

\* process_jma_station has written a summary whose NS entry is not the peak
\* itself but its rounding, and whose total exceeds H.
C21_Witness ==
    /\ jma_out.metadata_yml.exists
    /\ LET s == jma_out.metadata_yml.content.max_acceleration
       IN /\ s.NS # calc_signed_peak(jma_out.waveform_csv.content.NS).value
          /\ s.total > s.H
          /\ s.H > 0

\* ------------------------------------------------------- the batch loops

\* The entries an input directory may hold, by name.
StationNames == {1, 2, 3}

\* What an entry of the input directory is: a plain file, a directory whose
\* name starts with '.', or a station directory. A station directory has a
\* waveform.csv that process_station can work through ("ok"), has none
\* ("no_waveform"), has one on which a step inside the try block raises
\* ("error"), or cannot be searched, so that Path.exists() on its
\* waveform.csv raises PermissionError ("unreadable").
EntryKinds == {"file", "hidden_dir", "ok", "no_waveform", "error", "unreadable"}

\* The input directories: a kind for each name that is present.
InputDirs == UNION {[names -> EntryKinds] : names \in SUBSET StationNames}

\* The orders a set of names can be listed in.
Listings(names) ==
    {l \in [1..Cardinality(names) -> names] : \A i, j \in DOMAIN l : i # j => l[i] # l[j]}

\* sorted(INPUT_DIR.iterdir()): the entries in ascending name order.
RECURSIVE sorted(_)
sorted(listing) ==
    IF listing = <<>> THEN <<>>
    ELSE LET least == CHOOSE x \in {listing[i] : i \in DOMAIN listing} :
                          \A i \in DOMAIN listing : x <= listing[i]
         IN <<least>> \o sorted(SelectSeq(listing, LAMBDA x : x # least))

\* station_dir.is_dir().
is_dir(kind) == kind # "file"

\* station_dir.name.startswith('.').
name_starts_with_dot(kind) == kind = "hidden_dir"

\* process_station of the three scripts on a station directory: exists() on
\* waveform.csv is evaluated before the try block, so what it raises leaves
\* the function; without waveform.csv the result is False; an exception in
\* the try block is caught and gives False.
process_station(kind) ==
    IF kind = "unreadable" THEN Raise("PermissionError")
    ELSE IF kind = "no_waveform" THEN Return(FALSE)
    ELSE IF kind = "error" THEN Return(FALSE)
    ELSE Return(TRUE)

\* The scripts with the station loop.
BatchScripts == {"fourier", "velocity", "response"}

\* main is entered: the input directory may or may not exist.
MainInit ==
    /\ OnlyBatch
    /\ \E script \in BatchScripts, dir \in InputDirs, input_exists \in BOOLEAN :
       \E listing \in Listings(DOMAIN dir) :
           batch = [loop |-> "main", pc |-> "start", script |-> script, dir |-> dir,
                    input_exists |-> input_exists, iterdir |-> listing, entries |-> <<>>,
                    next |-> 1, success_count |-> 0, fail_count |-> 0, calls |-> <<>>,
                    raised |-> "none"]

\* The check of INPUT_DIR, the two counters and the sorted listing.
MainStart ==
    /\ batch.pc = "start" /\ batch.loop = "main"
    /\ batch' = IF ~batch.input_exists THEN [batch EXCEPT !.pc = "return"]
                ELSE [batch EXCEPT !.pc = "loop", !.entries = sorted(batch.iterdir)]
    /\ UNCHANGED batchFrame

\* One iteration of the station loop: entries that are no directory or whose
\* name starts with '.' are passed over, process_station is called on the
\* others and one of the counters is incremented; an exception that leaves
\* process_station leaves main.
MainIterate ==
    /\ batch.pc = "loop" /\ batch.loop = "main"
    /\ batch.next <= Len(batch.entries)
    /\ LET station_dir_name == batch.entries[batch.next]
           kind == batch.dir[station_dir_name]
           result == process_station(kind)
       IN batch' =
              IF ~is_dir(kind) \/ name_starts_with_dot(kind)
              THEN [batch EXCEPT !.next = @ + 1]
              ELSE IF ~result.ok
              THEN [batch EXCEPT !.pc = "raised", !.raised = result.error,
                                 !.calls = Append(@, station_dir_name)]
              ELSE IF result.value
              THEN [batch EXCEPT !.next = @ + 1, !.success_count = @ + 1,
                                 !.calls = Append(@, station_dir_name)]
              ELSE [batch EXCEPT !.next = @ + 1, !.fail_count = @ + 1,
                                 !.calls = Append(@, station_dir_name)]
    /\ UNCHANGED batchFrame

\* The loop is exhausted: the two counts are logged and main returns.
MainFinish ==
    /\ batch.pc = "loop" /\ batch.loop = "main"
    /\ batch.next > Len(batch.entries)
    /\ batch' = [batch EXCEPT !.pc = "return"]
    /\ UNCHANGED batchFrame

\* The files of the NIED acc directory: a stem and a suffix each.
NiedBases == {"AKT001", "AOM002"}

NiedSuffixes == {".EW", ".NS", ".UD", ".ew"}

NiedAccFiles == SUBSET (NiedBases \X NiedSuffixes)

\* f.suffix.upper().
suffix_upper(suffix) == IF suffix = ".ew" THEN ".EW" ELSE suffix

\* A group of one or two components passes for a station.
nied_group_complete_any(components) == Cardinality(DOMAIN components) >= 1

\* len(components) == 3, negated in the code to skip the group.
nied_group_complete(components) == Cardinality(DOMAIN components) = 3

\* process_all_nied is entered: the acc directory may or may not exist, and
\* process_nied_station succeeds for the stations of parse_ok.
NiedBatchInit ==
    /\ OnlyBatch
    /\ \E files \in NiedAccFiles, parse_ok \in SUBSET NiedBases, acc_dir_exists \in BOOLEAN :
           batch = [loop |-> "process_all_nied", pc |-> "start", files |-> files,
                    parse_ok |-> parse_ok, acc_dir_exists |-> acc_dir_exists,
                    to_group |-> {}, station_groups |-> <<>>, order |-> <<>>, next |-> 1,
                    success_count |-> 0, calls |-> <<>>, ret |-> NoResult]

\* Lines 415-423: without the acc directory the result is 0; otherwise its
\* files are listed.
NiedBatchStart ==
    /\ batch.pc = "start" /\ batch.loop = "process_all_nied"
    /\ batch' = IF ~batch.acc_dir_exists THEN [batch EXCEPT !.pc = "return", !.ret = Return(0)]
                ELSE [batch EXCEPT !.pc = "group", !.to_group = batch.files]
    /\ UNCHANGED batchFrame

\* Lines 425-430: one file of the listing, in whatever order glob yields
\* them, is entered into the group of its stem under its upper-case suffix;
\* files with another suffix are passed over.
NiedBatchGroup ==
    /\ batch.pc = "group" /\ batch.loop = "process_all_nied"
    /\ batch.to_group # {}
    /\ \E f \in batch.to_group :
           LET base == f[1]
               key == suffix_upper(f[2])
               known == base \in DOMAIN batch.station_groups
               before == IF known THEN batch.station_groups[base] ELSE <<>>
               group == [k \in DOMAIN before \cup {key} |-> IF k = key THEN f ELSE before[k]]
           IN batch' =
                  IF key \notin {".EW", ".NS", ".UD"}
                  THEN [batch EXCEPT !.to_group = @ \ {f}]
                  ELSE [batch EXCEPT
                            !.to_group = @ \ {f},
                            !.order = IF known THEN @ ELSE Append(@, base),
                            !.station_groups =
                                [b \in DOMAIN @ \cup {base} |-> IF b = base THEN group ELSE @[b]]]
    /\ UNCHANGED batchFrame

\* Line 433: all files are grouped; the count starts at 0.
NiedBatchGrouped ==
    /\ batch.pc = "group" /\ batch.loop = "process_all_nied"
    /\ batch.to_group = {}
    /\ batch' = [batch EXCEPT !.pc = "loop"]
    /\ UNCHANGED batchFrame

\* process_nied_station(base, components, output_dir): its whole body is in
\* a try block, the result is True or False.
process_nied_station_result(base, parse_ok) == base \in parse_ok

\* Lines 434-440: one group, in the order of insertion: an incomplete one
\* is logged and skipped, a complete one is handed to process_nied_station
\* and counted if that returns True.
NiedBatchIterate ==
    /\ batch.pc = "loop" /\ batch.loop = "process_all_nied"
    /\ batch.next <= Len(batch.order)
    /\ LET base == batch.order[batch.next]
           components == batch.station_groups[base]
       IN batch' =
              IF ~nied_group_complete(components)
              THEN [batch EXCEPT !.next = @ + 1]
              ELSE [batch EXCEPT
                        !.next = @ + 1,
                        !.calls = Append(@, [base |-> base, components |-> components]),
                        !.success_count =
                            IF process_nied_station_result(base, batch.parse_ok)
                            THEN @ + 1 ELSE @]
    /\ UNCHANGED batchFrame

\* Line 442: return success_count.
NiedBatchReturn ==
    /\ batch.pc = "loop" /\ batch.loop = "process_all_nied"
    /\ batch.next > Len(batch.order)
    /\ batch' = [batch EXCEPT !.pc = "return", !.ret = Return(batch.success_count)]
    /\ UNCHANGED batchFrame

\* The files of the JMA acc directory: records for which process_jma_station
\* returns True or False, and a file that does not match *_acc.csv.
JmaAccFiles ==
    SUBSET {[name |-> "41101_acc.csv", ok |-> TRUE], [name |-> "41102_acc.csv", ok |-> FALSE],
            [name |-> "41103_acc.csv", ok |-> TRUE], [name |-> "readme.txt", ok |-> FALSE]}

\* glob('*_acc.csv').
matches_acc_csv(f) == f.name # "readme.txt"

\* max.csv: missing, readable, or one that pandas cannot read.
MaxCsvFiles == {"absent", "good", "malformed"}

\* process_all_jma is entered.
JmaBatchInit ==
    /\ OnlyBatch
    /\ \E files \in JmaAccFiles, max_csv \in MaxCsvFiles, acc_dir_exists \in BOOLEAN :
           batch = [loop |-> "process_all_jma", pc |-> "start", files |-> files,
                    max_csv |-> max_csv, acc_dir_exists |-> acc_dir_exists,
                    max_lookup |-> "empty", to_process |-> {}, success_count |-> 0,
                    calls |-> {}, ret |-> NoResult, raised |-> "none"]

\* Lines 447-463: without the acc directory the result is 0; max.csv is
\* loaded if it exists, outside any try block; the count starts at 0.
JmaBatchStart ==
    /\ batch.pc = "start" /\ batch.loop = "process_all_jma"
    /\ batch' = IF ~batch.acc_dir_exists THEN [batch EXCEPT !.pc = "return", !.ret = Return(0)]
                ELSE IF batch.max_csv = "malformed"
                THEN [batch EXCEPT !.pc = "raised", !.raised = "ParserError"]
                ELSE [batch EXCEPT
                          !.pc = "loop",
                          !.max_lookup = IF batch.max_csv = "good" THEN "loaded" ELSE "empty",
                          !.to_process = {f \in batch.files : matches_acc_csv(f)}]
    /\ UNCHANGED batchFrame

\* Lines 464-466: one file of the glob, in whatever order it yields them;
\* process_jma_station has its whole body in a try block and returns True
\* or False.
JmaBatchIterate ==
    /\ batch.pc = "loop" /\ batch.loop = "process_all_jma"
    /\ \E filepath \in batch.to_process :
           batch' = [batch EXCEPT !.to_process = @ \ {filepath},
                                  !.calls = @ \cup {filepath},
                                  !.success_count = IF filepath.ok THEN @ + 1 ELSE @]
    /\ UNCHANGED batchFrame

\* Line 468: return success_count.
JmaBatchReturn ==
    /\ batch.pc = "loop" /\ batch.loop = "process_all_jma"
    /\ batch.to_process = {}
    /\ batch' = [batch EXCEPT !.pc = "return", !.ret = Return(batch.success_count)]
    /\ UNCHANGED batchFrame

BatchInit == MainInit \/ NiedBatchInit \/ JmaBatchInit

BatchNext ==
    \/ MainStart \/ MainIterate \/ MainFinish
    \/ NiedBatchStart \/ NiedBatchGroup \/ NiedBatchGrouped \/ NiedBatchIterate
    \/ NiedBatchReturn
    \/ JmaBatchStart \/ JmaBatchIterate \/ JmaBatchReturn

SpecBatch == BatchInit /\ [][BatchNext]_vars

\* ------------------------------------------------------------- claim C22

\* The elements of a sequence.
Range(s) == {s[i] : i \in DOMAIN s}

\* The entries of the input directory that main has to hand to
\* process_station: directories whose name does not start with '.'.
StationDirsOf(dir) == {name \in DOMAIN dir : dir[name] \notin {"file", "hidden_dir"}}

\* The stems of the acc directory for which all three components are there.
CompleteGroups(files) ==
    {base \in NiedBases :
         \A key \in {".EW", ".NS", ".UD"} :
             \E f \in files : f[1] = base /\ suffix_upper(f[2]) = key}

\* A batch loop has begun its work and ended, by returning or by an
\* exception that left it.
MainEnded == batch.loop = "main" /\ batch.pc \in {"return", "raised"} /\ batch.input_exists

NiedBatchEnded ==
    batch.loop = "process_all_nied" /\ batch.pc = "return" /\ batch.acc_dir_exists

JmaBatchEnded ==
    /\ batch.loop = "process_all_jma" /\ batch.acc_dir_exists
    /\ batch.pc = "return"

\* C22: in every batch loop (main of the Fourier, velocity/displacement and
\* response-spectrum scripts, process_all_nied, process_all_jma) the failure
\* of a station never aborts the batch: when the loop has ended no exception
\* of a station has left it and every station has been attempted, wherever
\* the failing stations are and however many there are.
C22_StationFailureNeverAborts ==
    /\ MainEnded =>
           /\ batch.pc = "return"
           /\ Range(batch.calls) = StationDirsOf(batch.dir)
    /\ NiedBatchEnded =>
           {c.base : c \in Range(batch.calls)} = CompleteGroups(batch.files)
    /\ JmaBatchEnded =>
           batch.calls = {f \in batch.files : matches_acc_csv(f)}

\* The same with the stations whose directory cannot be searched left out
\* of the input directories: every failure is then one that process_station
\* catches.
StationFailureCaughtNeverAborts ==
    (batch.loop = "main" => \A name \in DOMAIN batch.dir : batch.dir[name] # "unreadable")
        => C22_StationFailureNeverAborts

\* main has ended with two failed stations before a later one that succeeded.
CaughtFailuresPassed ==
    /\ MainEnded /\ batch.pc = "return"
    /\ batch.fail_count = 2 /\ batch.success_count = 1
    /\ batch.dir[batch.calls[3]] = "ok"

\* -------------------------------------- direct calls of the engine functions

\* A caller makes a first and a second call on its array.
EngCallNumbers == {1, 2}

EngSamples == {-1, 0, 2}

\* The caller's array: empty, one or two samples, or a spike long enough for
\* filtfilt.
EngSeries == UNION {[1..n -> EngSamples] : n \in {0, 1, 2}} \cup {Spike(16)}

\* Sampling rates, cutoff frequencies, periods and damping ratios handed to
\* the functions, valid ones and invalid ones.
EngRates == {0, 1, 2}

EngCutoffs == {HIGHPASS_FREQ, Rat(1, 2), Rat(1, 1)}

EngPeriods == {Rat(-2, 1), Rat(0, 1), Rat(2, 1)}

EngDampings == {Rat(-1, 2), Rat(0, 1), Rat(1, 2)}

\* The calls a caller can make on an array acc: the function and the scalar
\* arguments.  The transforms are computed exactly, which keeps them to the
\* short arrays.
EngCalls(acc) ==
    [fn : {"apply_baseline_correction", "integrate_fft_padded"}, sampling_rate : EngRates]
    \cup [fn : {"apply_highpass_filter"}, sampling_rate : EngRates, cutoff : EngCutoffs]
    \cup [fn : {"calc_signed_peak", "calc_peak_horizontal", "calc_peak_total"}]
    \cup (IF Len(acc) > 2 THEN {}
          ELSE [fn : {"calculate_fourier_spectrum"}, sampling_rate : EngRates]
               \cup [fn : {"calculate_response_fft", "calculate_response_spectrum"},
                     period : EngPeriods, h : EngDampings])

\* What a call returns or raises, from the function's own model.  The
\* defaults are those of the signatures: window_sec, order, pad_factor.
engine_call(call, acc) ==
    CASE call.fn = "calculate_fourier_spectrum" ->
             calculate_fourier_spectrum(acc, call.sampling_rate)
      [] call.fn = "apply_baseline_correction" ->
             apply_baseline_correction(acc, call.sampling_rate, BASELINE_WINDOW_SEC)
      [] call.fn = "apply_highpass_filter" ->
             apply_highpass_filter(acc, call.sampling_rate, call.cutoff, HIGHPASS_ORDER)
      [] call.fn = "integrate_fft_padded" ->
             integrate_fft_padded([x |-> acc, n |-> Len(acc)], call.sampling_rate,
                                  DEFAULT_PAD_FACTOR)
      [] call.fn = "calculate_response_fft" ->
             calculate_response_fft(acc, Rat(1, 1), call.period, call.h).ret
      [] call.fn = "calculate_response_spectrum" ->
             calculate_response_spectrum(
                 acc, Rat(1, 1), <<[lo |-> call.period, hi |-> call.period, w |-> Rat(0, 1)]>>,
                 call.h)
      [] call.fn = "calc_signed_peak" -> calc_signed_peak(acc)
      [] call.fn = "calc_peak_horizontal" -> calc_peak_horizontal(acc, acc)
      [] call.fn = "calc_peak_total" -> calc_peak_total(acc, acc, acc)

\* The amplitude array of calculate_fourier_spectrum taken to be the data
\* array itself, as if the product had been written into it.
store_targets_amplitude_is_data(fn) ==
    IF fn = "calculate_fourier_spectrum"
    THEN {[name |-> "amplitude", bound_to |-> "data"]}
    ELSE {}

\* The names through which an engine function stores into an array (a
\* subscript or an augmented assignment), and what each is bound to at the
\* store: an array the function created itself ("new": the result of
\* np.zeros or of an arithmetic expression) or the array of a parameter.
\* The functions not listed store into no array; np.array(data) of the peak
\* functions copies.
store_targets(fn) ==
    CASE fn = "calculate_fourier_spectrum" ->
             {[name |-> "amplitude", bound_to |-> "new"]}
      [] fn = "integrate_fft_padded" ->
             {[name |-> n, bound_to |-> "new"] :
                  n \in {"data_padded", "omega", "fft_vel", "fft_disp"}}
      [] fn = "calculate_response_spectrum" ->
             {[name |-> n, bound_to |-> "new"] :
                  n \in {"sd_arr", "sv_arr", "sa_arr", "psv_arr"}}
      [] OTHER -> {}

\* The module-level names a call assigns: no engine function has a global
\* statement or assigns to an attribute of a module object.
module_writes(fn) == {}

\* The caller's array after a call that returned: a store through a name
\* bound to it changes its first element.
array_after_call(fn, array) ==
    IF array # <<>> /\ \E t \in store_targets(fn) : t.bound_to # "new"
    THEN [array EXCEPT ![1] = @ \div 2 + 1]
    ELSE array

\* A caller holds an array and has called nothing yet.
EngInit ==
    /\ OnlyEng
    /\ \E acc \in EngSeries :
           eng = [pc |-> "calling", acc |-> acc, original |-> acc, module_written |-> {},
                  calls |-> <<>>]

\* The caller hands its array to one of the engine functions.
EngCall ==
    /\ eng.pc = "calling"
    /\ Len(eng.calls) + 1 \in EngCallNumbers
    /\ \E call \in EngCalls(eng.acc) :
       \E result \in {engine_call(call, eng.acc)} :
           eng' = [eng EXCEPT
                       !.calls = Append(@, [call |-> call, acc |-> eng.acc, ret |-> result]),
                       !.acc = IF result.ok THEN array_after_call(call.fn, @) ELSE @,
                       !.module_written = @ \cup module_writes(call.fn)]
    /\ UNCHANGED engFrame

SpecEngine == EngInit /\ [][EngCall]_vars

\* ------------------------------------------------------------- claim C23

\* The cutoff of a call of apply_highpass_filter is at or above the Nyquist
\* frequency sampling_rate / 2.
CutoffAtOrAboveNyquist(c) ==
    /\ c.call.fn = "apply_highpass_filter"
    /\ 2 * c.call.cutoff.num >= c.call.sampling_rate * c.call.cutoff.den

\* C23: apply_highpass_filter fails, returning no filtered series, whenever
\* the cutoff frequency is greater than or equal to the Nyquist frequency
\* sampling_rate / 2; for a positive sampling rate, where the normalized
\* cutoff is >= 1, the failure is the one the filter design raises.
C23_CutoffAtNyquistFailsFast ==
    \A i \in DOMAIN eng.calls :
        LET c == eng.calls[i]
        IN CutoffAtOrAboveNyquist(c) =>
               /\ ~c.ret.ok
               /\ c.ret.error \in {"ValueError", "ZeroDivisionError"}
               /\ c.call.sampling_rate > 0 => c.ret.error = "ValueError"

\* A series long enough for filtfilt was handed over with the cutoff exactly
\* at the Nyquist frequency of a positive sampling rate, and the call
\* failed; another call on the same series with a lower cutoff returned.
C23_Witness ==
    \E i, j \in DOMAIN eng.calls :
        LET c == eng.calls[i]
            d == eng.calls[j]
        IN
        /\ c.call.fn = "apply_highpass_filter" /\ c.call.sampling_rate > 0
        /\ 2 * c.call.cutoff.num = c.call.sampling_rate * c.call.cutoff.den
        /\ Len(c.acc) > filtfilt_padlen(HIGHPASS_ORDER)
        /\ ~c.ret.ok
        /\ d.call.fn = "apply_highpass_filter" /\ d.acc = c.acc /\ d.ret.ok

\* ------------------------------------------------------------- claim C24

\* The sampling rate of a call is not positive, for the three functions
\* that take one and are named by the claim.
NonPositiveRate(c) ==
    /\ c.call.fn \in {"calculate_fourier_spectrum", "apply_baseline_correction",
                      "integrate_fft_padded"}
    /\ c.call.sampling_rate <= 0

\* The period of a call of calculate_response_fft is negative or its damping
\* ratio is not positive.
BadOscillator(c) ==
    /\ c.call.fn = "calculate_response_fft"
    /\ (c.call.period.num < 0 \/ c.call.h.num <= 0)

\* C24: every engine function fails, instead of returning a result computed
\* from the bad value or from a substituted default, when it is given a
\* non-positive sampling rate (calculate_fourier_spectrum,
\* apply_baseline_correction, integrate_fft_padded), a negative period or a
\* non-positive damping ratio (calculate_response_fft), or an empty series.
C24_InvalidInputFails ==
    \A i \in DOMAIN eng.calls :
        LET c == eng.calls[i]
        IN (NonPositiveRate(c) \/ BadOscillator(c) \/ c.acc = <<>>) => ~c.ret.ok

\* The part of it that the code does: a sampling rate of 0 makes
\* calculate_fourier_spectrum and integrate_fft_padded fail, and an empty
\* series makes every function but apply_baseline_correction fail.
InvalidInputThatFails ==
    \A i \in DOMAIN eng.calls :
        LET c == eng.calls[i]
        IN \/ NonPositiveRate(c) /\ c.call.fn # "apply_baseline_correction"
           \/ c.acc = <<>> /\ c.call.fn # "apply_baseline_correction"
           => ~c.ret.ok

\* apply_baseline_correction was given a sampling rate of 0 and two samples
\* and returned a series of nan.
BaselineOfZeroRateReturned ==
    \E i \in DOMAIN eng.calls :
        LET c == eng.calls[i]
        IN /\ c.call.fn = "apply_baseline_correction" /\ c.call.sampling_rate = 0
           /\ Len(c.acc) = 2 /\ c.ret.ok
           /\ \A k \in 1..2 : c.ret.value[k].den = 0

\* ------------------------------------------------------------- claim C25

PoolStations == <<"NIED_AKT001", "JMA_41101">>

\* The files a station directory may hold before the run.
PoolWaveforms == {Absent, File([rows |-> 1]), File([rows |-> 2])}

PoolMetadata == {Absent, File([sampling_rate_hz |-> 1]), File([sampling_rate_hz |-> 100])}

StationFileNames ==
    {"waveform.csv", "metadata.yml", "velocity.csv", "displacement.csv",
     "fourier_spectrum.csv", "response_spectrum.csv"}

\* Every worker uses the paths of the first station.
station_file_of_first(dir, name) == <<PoolStations[1], name>>

\* station_dir / "name": the paths process_station works with.
station_file(dir, name) == <<dir, name>>

\* The name of the table a script writes first.
output_name(script) ==
    CASE script = "fourier" -> "fourier_spectrum.csv"
      [] script = "response" -> "response_spectrum.csv"
      [] script = "velocity" -> "velocity.csv"

\* What process_station computes for a table: determined by the script, the
\* table, the waveform it read and the sampling rate it read.
computed_table(script, name, df, sampling_rate) ==
    [script |-> script, table |-> name, from |-> df, sampling_rate |-> sampling_rate]

\* The mapping the velocity script writes back: what it read with the
\* summaries and the integration parameters added.
updated_metadata(metadata, df, sampling_rate) ==
    [read |-> metadata, added |-> {"max_velocity_calculated", "max_displacement_calculated",
                                   "integration_params"},
     from |-> df, sampling_rate |-> sampling_rate]

\* The workers are started, each on its own station directory, all running
\* the process_station of the same script.
PoolInit ==
    /\ OnlyPool
    /\ \E script \in BatchScripts,
          waveforms \in [1..Len(PoolStations) -> PoolWaveforms],
          metadata \in [1..Len(PoolStations) -> PoolMetadata] :
           LET files == [p \in {<<PoolStations[w], n>> :
                                    w \in 1..Len(PoolStations), n \in StationFileNames} |->
                            CASE p[2] = "waveform.csv" ->
                                     waveforms[CHOOSE w \in 1..Len(PoolStations) :
                                                   PoolStations[w] = p[1]]
                              [] p[2] = "metadata.yml" ->
                                     metadata[CHOOSE w \in 1..Len(PoolStations) :
                                                  PoolStations[w] = p[1]]
                              [] OTHER -> Absent]
           IN pool = [pc |-> "running", script |-> script, files |-> files,
                      before |-> files, accesses |-> {},
                      workers |-> [w \in 1..Len(PoolStations) |->
                                      [station_dir |-> PoolStations[w], pc |-> "exists",
                                       sampling_rate |-> DEFAULT_SAMPLING_RATE,
                                       metadata |-> <<>>, df |-> Absent, ret |-> "running"]]]

\* A worker's access to a file is noted with the path it used.
Accessed(w, op, path) == pool.accesses \cup {[worker |-> w, op |-> op, path |-> path]}

\* waveform_path.exists(): without the file the worker returns False.
PoolExists(w) ==
    /\ pool.workers[w].pc = "exists"
    /\ LET path == station_file(pool.workers[w].station_dir, "waveform.csv")
       IN pool' = [pool EXCEPT
                       !.accesses = Accessed(w, "exists", path),
                       !.workers[w].pc = IF pool.files[path].exists THEN "metadata"
                                         ELSE "return",
                       !.workers[w].ret = IF pool.files[path].exists THEN @ ELSE "False"]
    /\ UNCHANGED poolFrame

\* metadata_path.exists() and, if so, yaml.safe_load and the sampling rate.
PoolReadMetadata(w) ==
    /\ pool.workers[w].pc = "metadata"
    /\ LET path == station_file(pool.workers[w].station_dir, "metadata.yml")
           f == pool.files[path]
       IN pool' = [pool EXCEPT
                       !.accesses = Accessed(w, IF f.exists THEN "read" ELSE "exists", path),
                       !.workers[w].pc = "read_csv",
                       !.workers[w].metadata = IF f.exists THEN f.content ELSE @,
                       !.workers[w].sampling_rate =
                           IF f.exists THEN f.content.sampling_rate_hz ELSE @]
    /\ UNCHANGED poolFrame

\* pd.read_csv(waveform_path).
PoolReadCsv(w) ==
    /\ pool.workers[w].pc = "read_csv"
    /\ LET path == station_file(pool.workers[w].station_dir, "waveform.csv")
       IN pool' = [pool EXCEPT !.accesses = Accessed(w, "read", path),
                               !.workers[w].pc = "write",
                               !.workers[w].df = pool.files[path]]
    /\ UNCHANGED poolFrame

\* to_csv of the first table: the only one of the Fourier and the response
\* script, velocity.csv of the velocity script.
PoolWrite(w) ==
    /\ pool.workers[w].pc = "write"
    /\ LET me == pool.workers[w]
           name == output_name(pool.script)
           path == station_file(me.station_dir, name)
       IN pool' = [pool EXCEPT
                       !.accesses = Accessed(w, "write", path),
                       !.files[path] =
                           File(computed_table(pool.script, name, me.df, me.sampling_rate)),
                       !.workers[w].pc = IF pool.script = "velocity" THEN "displacement"
                                         ELSE "return",
                       !.workers[w].ret = IF pool.script = "velocity" THEN @ ELSE "True"]
    /\ UNCHANGED poolFrame

\* to_csv of displacement.csv.
PoolWriteDisplacement(w) ==
    /\ pool.workers[w].pc = "displacement"
    /\ LET me == pool.workers[w]
           path == station_file(me.station_dir, "displacement.csv")
       IN pool' = [pool EXCEPT
                       !.accesses = Accessed(w, "write", path),
                       !.files[path] = File(computed_table(pool.script, "displacement.csv",
                                                           me.df, me.sampling_rate)),
                       !.workers[w].pc = "metadata_yml"]
    /\ UNCHANGED poolFrame

\* yaml.dump of the updated mapping to metadata.yml.
PoolWriteMetadata(w) ==
    /\ pool.workers[w].pc = "metadata_yml"
    /\ LET me == pool.workers[w]
           path == station_file(me.station_dir, "metadata.yml")
       IN pool' = [pool EXCEPT
                       !.accesses = Accessed(w, "write", path),
                       !.files[path] =
                           File(updated_metadata(me.metadata, me.df, me.sampling_rate)),
                       !.workers[w].pc = "return",
                       !.workers[w].ret = "True"]
    /\ UNCHANGED poolFrame

PoolNext ==
    /\ pool.pc = "running"
    /\ \E w \in 1..Len(PoolStations) :
           \/ PoolExists(w) \/ PoolReadMetadata(w) \/ PoolReadCsv(w)
           \/ PoolWrite(w) \/ PoolWriteDisplacement(w) \/ PoolWriteMetadata(w)

SpecPool == PoolInit /\ [][PoolNext]_vars

\* ------------------------------------------------------------- claim C26

\* The content of the files of a station directory after process_station of
\* a script has run on it alone, from the files it held before.
AloneOutcome(script, dir, before, name) ==
    LET waveform == before[<<dir, "waveform.csv">>]
        metadata == before[<<dir, "metadata.yml">>]
        rate == IF metadata.exists THEN metadata.content.sampling_rate_hz
                ELSE DEFAULT_SAMPLING_RATE
        written == CASE script = "fourier" -> {"fourier_spectrum.csv"}
                     [] script = "response" -> {"response_spectrum.csv"}
                     [] script = "velocity" ->
                            {"velocity.csv", "displacement.csv", "metadata.yml"}
    IN IF ~waveform.exists \/ name \notin written THEN before[<<dir, name>>]
       ELSE IF name = "metadata.yml"
       THEN File([read |-> IF metadata.exists THEN metadata.content ELSE <<>>,
                  added |-> {"max_velocity_calculated", "max_displacement_calculated",
                             "integration_params"},
                  from |-> waveform, sampling_rate |-> rate])
       ELSE File([script |-> script, table |-> name, from |-> waveform,
                  sampling_rate |-> rate])

\* Every worker has returned.
PoolDone == pool.pc = "running" /\ \A w \in DOMAIN pool.workers : pool.workers[w].pc = "return"

\* C26: when workers run process_station on different stations concurrently,
\* in any interleaving, no worker reads or writes a file of another worker's
\* station directory, and when all have returned the files of each station
\* are the ones a run of process_station on that station alone leaves.
C26_WorkersKeepToTheirStation ==
    pool.pc = "running" =>
        /\ \A a \in pool.accesses : a.path[1] = pool.workers[a.worker].station_dir
        /\ PoolDone =>
               \A w \in DOMAIN pool.workers, name \in StationFileNames :
                   pool.files[<<PoolStations[w], name>>]
                       = AloneOutcome(pool.script, PoolStations[w], pool.before, name)

\* Both workers of the velocity script are between their writes at the same
\* time: each has written its velocity.csv and neither has returned.
C26_Witness ==
    /\ pool.pc = "running" /\ pool.script = "velocity"
    /\ pool.workers[1].pc = "displacement" /\ pool.workers[2].pc = "metadata_yml"
    /\ \A w \in 1..2 : pool.files[<<PoolStations[w], "velocity.csv">>].exists
    /\ pool.before[<<PoolStations[1], "waveform.csv">>]
           # pool.before[<<PoolStations[2], "waveform.csv">>]

\* ------------------------------------------------------------- claim C27

\* The station loop with its steps taken as long as there is one to take.
SpecBatchFair == SpecBatch /\ WF_vars(BatchNext)

\* A batch loop comes to its end.
BatchTerminates == <>(batch.pc \in {"return", "raised"})

\* C27: the loop of main calls process_station exactly once for each entry
\* of the input directory that is a directory and whose name does not start
\* with '.', in sorted name order; each call increments exactly one of
\* success_count and fail_count, so that when the loop has ended their sum
\* is the number of such directories.
C27_OneCallPerStationDirectory ==
    batch.loop = "main" =>
        /\ batch.success_count + batch.fail_count = Len(batch.calls)
        /\ \A i, j \in DOMAIN batch.calls : i < j => batch.calls[i] < batch.calls[j]
        /\ Range(batch.calls) \subseteq StationDirsOf(batch.dir)
        /\ MainEnded =>
               /\ Range(batch.calls) = StationDirsOf(batch.dir)
               /\ batch.success_count + batch.fail_count
                      = Cardinality(StationDirsOf(batch.dir))

\* The same for the input directories in which every station directory can
\* be searched, so that no exception leaves process_station.
OneCallPerSearchableStationDirectory ==
    (batch.loop = "main" /\ \A name \in DOMAIN batch.dir : batch.dir[name] # "unreadable")
        => C27_OneCallPerStationDirectory

\* main has ended after a listing that was not in name order, with a file
\* and a successful and a failed station among its three entries.
OutOfOrderListingProcessed ==
    /\ MainEnded /\ batch.pc = "return"
    /\ batch.iterdir = <<3, 1, 2>>
    /\ batch.success_count = 1 /\ batch.fail_count = 1

\* ------------------------------------------------------------- claim C28

\* All three components have been integrated and both tables are written.
VdTablesWritten ==
    /\ DOMAIN proc.results = {"NS", "EW", "UD"}
    /\ \A c \in {"NS", "EW", "UD"} :
           /\ proc.results[c].velocity.fn = "integrate_fft_padded"
           /\ proc.results[c].displacement.fn = "integrate_fft_padded"
    /\ station_dir.velocity_csv.exists
    /\ station_dir.displacement_csv.exists

\* C28: in the velocity/displacement process_station a step changes
\* metadata.yml only after all three components have been integrated and
\* velocity.csv and displacement.csv have been written, and it is the step
\* after which the function returns True; so a run in which an earlier step
\* fails returns False with metadata.yml as it was before the call.
C28_MetadataRewrittenLast ==
    [][station_dir'.metadata_yml # station_dir.metadata_yml =>
           /\ proc.pc = "metadata_yml"
           /\ VdTablesWritten
           /\ proc'.pc = "return" /\ proc'.ret = "True"]_vars

\* A metadata.yml that was there before the call has been rewritten, with
\* what it held and the summaries, after both tables.
C28_Witness ==
    /\ VdMetadataWritten
    /\ VdTablesWritten
    /\ "source" \in DOMAIN station_dir.metadata_yml.content.dict
    /\ "max_velocity_calculated" \in DOMAIN station_dir.metadata_yml.content.dict

\* The filter has failed on the first component: the function has returned
\* False and the metadata.yml of the station is one of those a station may
\* hold before the call.
VdFailedWithMetadataUntouched ==
    /\ proc.pc = "return" /\ proc.ret = "False" /\ Len(proc.calls) = 2
    /\ station_dir.metadata_yml \in MetadataFiles
    /\ station_dir.metadata_yml.exists

\* ------------------------------------------------------------- claim C29

\* The stems process_nied_station has been called for.
NiedBasesCalled == {batch.calls[i].base : i \in DOMAIN batch.calls}

\* C29: process_all_nied hands to process_nied_station only groups holding
\* exactly the components .EW, .NS and .UD of one stem; when it has returned,
\* every complete group has been handed over once, no incomplete group has
\* been handed over or counted, and the result is the number of complete
\* groups for which process_nied_station returned True.
C29_OnlyCompleteGroupsCounted ==
    batch.loop = "process_all_nied" =>
        /\ \A i \in DOMAIN batch.calls :
               LET call == batch.calls[i]
               IN /\ DOMAIN call.components = {".EW", ".NS", ".UD"}
                  /\ \A key \in DOMAIN call.components :
                         /\ call.components[key] \in batch.files
                         /\ call.components[key][1] = call.base
                         /\ suffix_upper(call.components[key][2]) = key
                  /\ \A j \in DOMAIN batch.calls : batch.calls[j].base = call.base => j = i
        /\ NiedBatchEnded =>
               /\ NiedBasesCalled = CompleteGroups(batch.files)
               /\ batch.ret =
                      Return(Cardinality(CompleteGroups(batch.files) \cap batch.parse_ok))

\* Two stems were grouped, one with its three components and one without:
\* the complete one was handed over and returned True, the other was skipped,
\* and the result is 1.
C29_Witness ==
    /\ NiedBatchEnded
    /\ Cardinality(DOMAIN batch.station_groups) = 2
    /\ Len(batch.calls) = 1
    /\ batch.calls[1].base \in batch.parse_ok
    /\ batch.parse_ok = NiedBases
    /\ batch.ret = Return(1)

\* ------------------------------------------ generate_datetime_series calls

\* The start times of a record, in seconds: on the minute, one second and
\* two seconds before the next minute.
DtsRecordTimes == {0, 58, 59}

\* The sample counts of a call, the empty record among them.
DtsNumSamples == 0 .. 7

\* The sampling frequencies of a call (Hz): those of the records and one
\* whose period is not a whole number of microseconds. For each of them
\* the float product (i % sampling_freq) * (1000 / sampling_freq) truncates
\* to the same integer as the exact quotient.
DtsSamplingFreqs == {1, 3, 100}

\* generate_datetime_series is entered with its three arguments.
DtsInit ==
    /\ OnlyDts
    /\ \E record_time \in DtsRecordTimes, num_samples \in DtsNumSamples,
          sampling_freq \in DtsSamplingFreqs :
           dts = [pc |-> "call", record_time |-> record_time, num_samples |-> num_samples,
                  sampling_freq |-> sampling_freq, timestamps |-> <<>>]

\* Lines 396-406: the list is built and returned.
DtsCall ==
    /\ dts.pc = "call"
    /\ dts' = [dts EXCEPT !.pc = "return",
                          !.timestamps = generate_datetime_series(dts.record_time,
                                             dts.num_samples, dts.sampling_freq)]
    /\ UNCHANGED dtsFrame

SpecDatetime == DtsInit /\ [][DtsCall]_vars

\* ------------------------------------------------------------- claim C30

\* A timestamp as milliseconds since the start of the scale.
TimestampMs(t) == t.sec * 1000 + t.ms

\* start time + i / sampling_freq seconds, truncated to milliseconds.
SampleTimeMs(record_time, i, sampling_freq) ==
    record_time * 1000 + (i * 1000) \div sampling_freq

\* C30: generate_datetime_series returns exactly num_samples timestamps,
\* strictly increasing in sample order, the i-th one being the start time
\* plus i / sampling_freq seconds truncated to milliseconds: the seconds
\* field and the millisecond field never disagree.
C30_TimestampsIncreaseWithSamples ==
    dts.pc = "return" =>
        /\ Len(dts.timestamps) = dts.num_samples
        /\ \A k \in 1 .. Len(dts.timestamps) :
               /\ TimestampMs(dts.timestamps[k]) =
                      SampleTimeMs(dts.record_time, k - 1, dts.sampling_freq)
               /\ k > 1 => TimestampMs(dts.timestamps[k - 1]) < TimestampMs(dts.timestamps[k])

\* The same for the frequencies whose period is a whole number of
\* milliseconds, and the length of the list for every frequency.
TimestampsIncreaseForWholePeriods ==
    dts.pc = "return" =>
        /\ Len(dts.timestamps) = dts.num_samples
        /\ 1000 % dts.sampling_freq = 0 =>
               \A k \in 1 .. Len(dts.timestamps) :
                   /\ TimestampMs(dts.timestamps[k]) =
                          SampleTimeMs(dts.record_time, k - 1, dts.sampling_freq)
                   /\ k > 1 =>
                          TimestampMs(dts.timestamps[k - 1]) < TimestampMs(dts.timestamps[k])

\* At 3 Hz the fourth timestamp is the first one again: the seconds field
\* is still that of the start, the millisecond field is back at 000.
FourthTimestampRepeatsFirst ==
    /\ dts.pc = "return" /\ dts.sampling_freq = 3 /\ dts.num_samples >= 4
    /\ dts.timestamps[4] = dts.timestamps[1]

=============================================================================
